---- MODULE Spec2Model ----
(***************************************************************************)
(* Realtime direct messaging of finalSkillora: the RealtimeMessagingService *)
(* (client/lib/realtime-messaging.service.ts), the tables it reads and      *)
(* writes (supabase-messages-1to1.sql) and the RealtimeMessagesPage that    *)
(* drives it (client/pages/movella/LoadingOverlay.jsx).                     *)
(*                                                                          *)
(* Strings are sequences of UTF-16 code units, so that Array.prototype.sort *)
(* and template literals are computed the way JavaScript computes them.     *)
(***************************************************************************)
EXTENDS Integers, Sequences, FiniteSets, TLC

\* ------------------------------------------------------------------ bounds
\* sendMessage calls made during one run.
MaxSends == 1
\* Times one client mounts the chat view (sessions).
MaxMounts == 2
\* Longest identifier drawn for the pair-room specification.
MaxIdLen == 2
\* Rows of a database drawn for one call of an operation.
MaxRows == 3
\* Writes to the database by sessions other than the modelled pages.
MaxEvents == 2
\* Messages sent from the Messages page during one run.
MaxPageSends == 2
\* Milliseconds that pass on the clock of the Messages page during one run.
MaxClock == 1

\* ------------------------------------------------------- program constants
\* getMessages(userId1, userId2, limit = 50, offset = 0)
DefaultLimit == 50
DefaultOffset == 0
\* searchMessages: limit = 20
SearchLimit == 20

\* ------------------------------------------------------------------ strings
\* Code units of the identifier alphabet: "a", "b".
IdAlphabet == {97, 98}

\* The three users of the directory; ua and ub run a client.
ua == <<97>>
ub == <<98>>
uc == <<97, 98>>
Users == {ua, ub, uc}
Clients == {ua, ub}
NoUser == <<>>

\* "dm:", ":", "-", "messages:", "typing:", "profiles:upserts", "user_status"
StrDm == <<100, 109, 58>>
StrColon == <<58>>
StrDash == <<45>>
StrMessages == <<109, 101, 115, 115, 97, 103, 101, 115, 58>>
StrTyping == <<116, 121, 112, 105, 110, 103, 58>>
StrProfilesUpserts == <<112, 114, 111, 102, 105, 108, 101, 115, 58, 117, 112, 115, 101, 114, 116, 115>>
StrUserStatus == <<117, 115, 101, 114, 95, 115, 116, 97, 116, 117, 115>>

Min(x, y) == IF x <= y THEN x ELSE y

\* s < t in the order of String comparison: code unit by code unit, a proper
\* prefix first.
RECURSIVE StrLess(_, _)
StrLess(s, t) ==
  IF t = <<>> THEN FALSE
  ELSE IF s = <<>> THEN TRUE
  ELSE IF Head(s) # Head(t) THEN Head(s) < Head(t)
  ELSE StrLess(Tail(s), Tail(t))

\* [x, y].sort() of two strings: the default comparator, stable.
SortPair(x, y) == IF StrLess(y, x) THEN <<y, x>> ELSE <<x, y>>

\* The pair room without the sort: the two identifiers in argument order.
buildPairRoomUnsorted(userIdA, userIdB) ==
  StrDm \o userIdA \o StrColon \o userIdB

\* buildPairRoom: `dm:${a}:${b}` of the sorted pair.
buildPairRoom(userIdA, userIdB) ==
  LET p == SortPair(userIdA, userIdB)
  IN  StrDm \o p[1] \o StrColon \o p[2]

\* All identifiers of length 1..n over the identifier alphabet.
RECURSIVE IdsOfLen(_)
IdsOfLen(n) ==
  IF n = 0 THEN {<<>>}
  ELSE {Append(s, c) : s \in IdsOfLen(n - 1), c \in IdAlphabet}
IdStrings == UNION {IdsOfLen(n) : n \in 1..MaxIdLen}

\* ---------------------------------------------------------------- variables
VARIABLES
  \* --- the hosted database
  messages,           \* public.messages, in insertion order
  user_status,        \* public.user_status: a set of rows
  typing_indicators,  \* public.typing_indicators: a set of rows
  profiles,           \* user ids that have a profiles row
  rlsMessagesUpdate,  \* whether the deployment has an UPDATE policy on messages
  \* --- RealtimeMessagingService, one instance per client
  channels,           \* this.channels: channel name -> channel id
  realtimeChannels,   \* the channels the realtime client holds open
  typingTimeouts,     \* this.typingTimeouts: the keys with a pending timer
  cleanupPending,     \* cleanup() calls awaiting updateUserStatus
  promotionTimers,    \* pending setTimeout(updateMessageStatus 'delivered', 800)
  broadcasts,         \* 'dm' broadcasts in flight to a subscribed client
  send,               \* the sendMessage call in flight
  sendCount,          \* sendMessage calls made so far
  typingCall,         \* arguments of the last sendTypingIndicator call
  \* --- RealtimeMessagesPage, one per client
  mounted,
  mountCount,
  initPc,             \* position of initializeChat
  convData,           \* conversationsData held across the awaits
  conversations,
  selected,           \* selectedUserId
  thread,             \* messages (ids) shown in the open conversation
  loads,              \* loadMessages calls in flight
  pageIdleTimers,     \* pending 1-second idle timers (typingTimeoutRef)
  lastSendResult,     \* what the page's sendMessage saw last
  \* --- the pair-room specification
  roomArgs,
  roomOut,
  \* --- one call of an operation of the service on a drawn database
  callArgs,
  callOut,
  \* --- postgres_changes events on their way to a page, and what they start
  listEvents,         \* events not yet handed to a callback
  statusLookups,      \* getOnlineUsers calls started by the status callback
  eventCount,         \* writes by other sessions so far
  \* --- the Messages page (client/pages/Messages.tsx) of ua
  loading,
  pageConversations,  \* its state `conversations`
  selectedUserId,
  pageMessages,       \* its state `messages`
  otherProfile,
  conversationsRef,   \* which array `conversations` holds: one of two, each
                      \* setConversations([...]) putting the other in its place
  effectsDue,         \* a dependency of its effects changed in the last render
  subscribedFor,      \* selectedUserId in the closure given to subscribeToIncoming
  conversationFetches,\* fetchConversations calls in flight, with their results
  messageFetches,     \* fetchMessages calls in flight, with their results
  profileFetches,     \* profile lookups in flight
  tempSends,          \* onSend calls awaiting sendMessage
  sendsMade,
  clock,              \* Date.now()
  alerts,             \* alert() calls so far
  incoming            \* inserted rows not yet handed to the incoming callback

dbVars == <<messages, user_status, typing_indicators, profiles, rlsMessagesUpdate>>
chanVars == <<channels, realtimeChannels>>
timerVars == <<typingTimeouts, promotionTimers, pageIdleTimers>>
svcVars == <<cleanupPending, broadcasts, send, sendCount, typingCall>>
pageVars == <<mounted, mountCount, initPc, convData, conversations, selected,
              thread, loads, lastSendResult>>
roomVars == <<roomArgs, roomOut>>
callVars == <<callArgs, callOut>>
evVars == <<listEvents, statusLookups, eventCount>>
mpVars == <<loading, pageConversations, conversationsRef, selectedUserId, pageMessages, otherProfile,
            effectsDue, subscribedFor, conversationFetches, messageFetches,
            profileFetches, tempSends, sendsMade, clock, alerts, incoming>>
vars == <<dbVars, chanVars, timerVars, svcVars, pageVars, roomVars, callVars, evVars,
          mpVars>>

\* ------------------------------------------------------- public.messages
\* A row: id, sender_id, receiver_id, created_at, status (default 'sent').
MessageRow(id, s, r, at) ==
  [id |-> id, sender_id |-> s, receiver_id |-> r, created_at |-> at, status |-> "sent"]

\* Earlier history of the (ua, ub) conversation: n rows, senders alternating.
PriorHistory(n) ==
  [i \in 1..n |-> IF i % 2 = 1 THEN MessageRow(i, ua, ub, i) ELSE MessageRow(i, ub, ua, i)]

\* Histories the database starts with: none, or DefaultLimit earlier messages.
InitialHistories == {0, DefaultLimit}

\* insert({sender_id, receiver_id, content}).select('*').single(): id and
\* created_at take their defaults (a fresh id, now()).
\* An insert that is issued a second time.
InsertMessageRetried(table, s, r) ==
  Append(Append(table, MessageRow(Len(table) + 1, s, r, Len(table) + 1)),
         MessageRow(Len(table) + 2, s, r, Len(table) + 2))

InsertMessage(table, s, r) ==
  Append(table, MessageRow(Len(table) + 1, s, r, Len(table) + 1))

\* update(...) on the rows a filter matches. Row-level security: with no
\* UPDATE policy an update matches no row.
UpdateMessages(table, matched, status) ==
  IF rlsMessagesUpdate
  THEN [i \in 1..Len(table) |->
          IF i \in matched THEN [table[i] EXCEPT !.status = status] ELSE table[i]]
  ELSE table

\* update({status}).eq('id', messageId)
updateMessageStatus(table, messageId, status) ==
  UpdateMessages(table, {i \in 1..Len(table) : table[i].id = messageId}, status)

\* update({status: 'read'}).eq('sender_id').eq('receiver_id').neq('status','read')
markMessagesAsRead(table, senderId, receiverId) ==
  UpdateMessages(table,
                 {i \in 1..Len(table) : /\ table[i].sender_id = senderId
                                        /\ table[i].receiver_id = receiverId
                                        /\ table[i].status # "read"},
                 "read")

\* order('created_at', {ascending: true}): insertion sort, stable.
RECURSIVE InsertByCreatedAt(_, _)
InsertByCreatedAt(sorted, row) ==
  IF sorted = <<>> THEN <<row>>
  ELSE IF sorted[Len(sorted)].created_at <= row.created_at THEN Append(sorted, row)
  ELSE Append(InsertByCreatedAt(SubSeq(sorted, 1, Len(sorted) - 1), row),
              sorted[Len(sorted)])

\* Rows that are in ascending order of created_at.
InCreatedAtOrder(rows) ==
  \A i \in 1..(Len(rows) - 1) : rows[i].created_at <= rows[i + 1].created_at

\* Rows in order already are the result as they are.
RECURSIVE OrderByCreatedAt(_)
OrderByCreatedAt(rows) ==
  IF rows = <<>> THEN <<>>
  ELSE IF InCreatedAtOrder(rows) THEN rows
  ELSE InsertByCreatedAt(OrderByCreatedAt(SubSeq(rows, 1, Len(rows) - 1)),
                         rows[Len(rows)])

\* The rows left in ascending order.
Unreversed(s) == s

Reverse(s) == [i \in 1..Len(s) |-> s[Len(s) + 1 - i]]

\* or(and(sender.eq.1,receiver.eq.2),and(sender.eq.2,receiver.eq.1))
BetweenPair(row, userId1, userId2) ==
  \/ row.sender_id = userId1 /\ row.receiver_id = userId2
  \/ row.sender_id = userId2 /\ row.receiver_id = userId1

\* A range whose upper end is exclusive.
RangeToExclusive(rows, from, to) == SubSeq(rows, from + 1, Min(to, Len(rows)))

\* range(from, to) of PostgREST: rows from..to, zero-based, inclusive.
Range(rows, from, to) == SubSeq(rows, from + 1, Min(to + 1, Len(rows)))

getMessages(table, userId1, userId2, limit, offset) ==
  LET sel(row) == BetweenPair(row, userId1, userId2)
  IN  Range(OrderByCreatedAt(SelectSeq(table, sel)), offset, offset + limit - 1)

\* ---------------------------------------------- public.user_status, profiles
\* A profile's name is its user id; a missing one reads 'Unknown User'.
StrUnknownUser == <<85, 110, 107, 110, 111, 119, 110, 32, 85, 115, 101, 114>>
ProfileName(profs, userId) == IF userId \in profs THEN userId ELSE StrUnknownUser

\* upsert(row) with no onConflict option: INSERT ... ON CONFLICT (primary key)
\* DO UPDATE. The primary key of user_status is id, which the payload leaves to
\* its default, so the conflict target never matches; user_id is UNIQUE, so a
\* second row for the same user is a unique violation and nothing is written.
StatusPayloadColumns == {"user_id", "is_online", "last_seen"}
StatusConflictTarget == "id"
UpsertUserStatus(table, userId, isOnline) ==
  LET existing == {r \in table : r.user_id = userId}
      new      == [user_id |-> userId, is_online |-> isOnline]
  IN  IF StatusConflictTarget \in StatusPayloadColumns /\ existing # {}
      THEN [error |-> FALSE, table |-> (table \ existing) \cup {new}]
      ELSE IF existing # {}
      THEN [error |-> TRUE, table |-> table]
      ELSE [error |-> FALSE, table |-> table \cup {new}]

\* initializeUserStatus / updateUserStatus: the error is logged, not raised.
initializeUserStatus(table, userId) == UpsertUserStatus(table, userId, TRUE).table
updateUserStatus(table, userId, isOnline) == UpsertUserStatus(table, userId, isOnline).table

\* getOnlineUsers: the user ids of the profiles of the online rows, without
\* the caller.
getOnlineUsers(table, profs, currentUserId) ==
  LET data         == {r \in table : r.is_online}
      otherUserIds == {r.user_id : r \in data} \ {currentUserId}
  IN  IF otherUserIds = {} THEN {} ELSE {p \in profs : p \in otherUserIds}

\* A set of strings as a sequence in ascending order.
RECURSIVE SortedByName(_)
SortedByName(S) ==
  IF S = {} THEN <<>>
  ELSE LET least == CHOOSE x \in S : \A y \in S \ {x} : StrLess(x, y)
       IN  <<least>> \o SortedByName(S \ {least})

\* getAllUsersExcept: neq('user_id', current), order('name').
getAllUsersExcept(profs, currentUserId) == SortedByName(profs \ {currentUserId})

\* ------------------------------------------------------ ConversationPreview
\* last_message is the created_at of the last message, 0 when undefined.
Preview(userId, name, last, unread, online) ==
  [user_id |-> userId, name |-> name, last_message |-> last,
   unread_count |-> unread, is_online |-> online]

IndexOfUser(list, userId) ==
  IF \E i \in 1..Len(list) : list[i].user_id = userId
  THEN CHOOSE i \in 1..Len(list) : list[i].user_id = userId
  ELSE 0

\* data.forEach of getConversations over rows in descending created_at.
RECURSIVE GroupByPeer(_, _, _)
GroupByPeer(data, userId, acc) ==
  IF data = <<>> THEN acc
  ELSE LET m     == Head(data)
           other == IF m.sender_id = userId THEN m.receiver_id ELSE m.sender_id
           i     == IndexOfUser(acc, other)
           inc   == IF m.sender_id # userId THEN 1 ELSE 0
       IN  IF i = 0
           THEN GroupByPeer(Tail(data), userId,
                  Append(acc, Preview(other, StrUnknownUser, m.created_at, inc, FALSE)))
           ELSE GroupByPeer(Tail(data), userId,
                  [acc EXCEPT ![i].unread_count = @ + inc])

getConversations(table, status, profs, userId) ==
  LET touching(row) == row.sender_id = userId \/ row.receiver_id = userId
      data    == Reverse(OrderByCreatedAt(SelectSeq(table, touching)))
      grouped == GroupByPeer(data, userId, <<>>)
      hydrate(c) ==
        LET s == {r \in status : r.user_id = c.user_id}
        IN  [c EXCEPT !.name = ProfileName(profs, c.user_id),
                      !.is_online = IF s = {} THEN c.is_online
                                    ELSE \E r \in s : r.is_online]
  IN  [i \in 1..Len(grouped) |-> hydrate(grouped[i])]

\* The comparator of initializeChat: online first, then the later last
\* message, then the name.
ConvLess(a, b) ==
  IF a.is_online /\ ~b.is_online THEN TRUE
  ELSE IF ~a.is_online /\ b.is_online THEN FALSE
  ELSE IF b.last_message # a.last_message THEN b.last_message < a.last_message
  ELSE StrLess(a.name, b.name)

\* Array.prototype.sort with that comparator: stable.
RECURSIVE InsertConv(_, _)
InsertConv(sorted, c) ==
  IF sorted = <<>> THEN <<c>>
  ELSE IF ~ConvLess(c, sorted[Len(sorted)]) THEN Append(sorted, c)
  ELSE Append(InsertConv(SubSeq(sorted, 1, Len(sorted) - 1), c), sorted[Len(sorted)])

RECURSIVE SortConversations(_)
SortConversations(list) ==
  IF list = <<>> THEN <<>>
  ELSE InsertConv(SortConversations(SubSeq(list, 1, Len(list) - 1)), list[Len(list)])

\* allUsers.forEach of initializeChat: add the users with no preview yet,
\* overlay the presence snapshot on the others.
RECURSIVE OverlayDirectory(_, _, _)
OverlayDirectory(byId, allUsers, online) ==
  IF allUsers = <<>> THEN byId
  ELSE LET u == Head(allUsers)
           i == IndexOfUser(byId, u)
       IN  IF i = 0
           THEN OverlayDirectory(Append(byId, Preview(u, u, 0, 0, u \in online)),
                                 Tail(allUsers), online)
           ELSE OverlayDirectory([byId EXCEPT ![i].is_online = u \in online],
                                 Tail(allUsers), online)

\* The merge with the directory overlay left out.
MergeConversationsOnly(conversationsData, allUsers, online) ==
  SortConversations(conversationsData)

\* The merge of initializeChat.
MergeDirectory(conversationsData, allUsers, online) ==
  SortConversations(OverlayDirectory(conversationsData, allUsers, online))

\* ------------------------------------------------- the channel registry
\* One client's registry: this.channels and the realtime client's open
\* channels.
\* A channel: its identity, its topic, the callback it was opened with (kind,
\* and for a pair room the peer of the filter) and the view that owns the
\* callback (gen, the mount it was created in).
Registry(u) == [channels |-> channels[u], open |-> realtimeChannels[u]]

\* A new channel object is none of the open ones: the least identity not in
\* use.
FreshChannelId(open) ==
  CHOOSE n \in 1..(Cardinality(open) + 1) :
    /\ \A c \in open : c.id # n
    /\ \A m \in 1..(n - 1) : \E c \in open : c.id = m

\* supabase.channel(name).on(..., callback).subscribe(); this.channels.set(name, channel)
OpenChannel(st, name, kind, peer, gen) ==
  [channels |-> (name :> FreshChannelId(st.open)) @@ st.channels,
   open     |-> st.open \cup {[id |-> FreshChannelId(st.open), topic |-> name,
                               kind |-> kind, peer |-> peer, gen |-> gen]}]

\* subscribeToMessages without the has-check.
subscribeToMessagesUnchecked(st, userId, gen) ==
  OpenChannel(st, StrMessages \o userId, "messages", NoUser, gen)

subscribeToMessages(st, userId, gen) ==
  IF (StrMessages \o userId) \in DOMAIN st.channels THEN st
  ELSE OpenChannel(st, StrMessages \o userId, "messages", NoUser, gen)

subscribeToProfiles(st, gen) ==
  IF StrProfilesUpserts \in DOMAIN st.channels THEN st
  ELSE OpenChannel(st, StrProfilesUpserts, "profiles", NoUser, gen)

subscribeToTypingIndicators(st, userId, gen) ==
  IF (StrTyping \o userId) \in DOMAIN st.channels THEN st
  ELSE OpenChannel(st, StrTyping \o userId, "typing", NoUser, gen)

subscribeToUserStatus(st, gen) ==
  IF StrUserStatus \in DOMAIN st.channels THEN st
  ELSE OpenChannel(st, StrUserStatus, "status", NoUser, gen)

subscribeToPairBroadcast(st, userId, otherUserId, gen) ==
  IF buildPairRoom(userId, otherUserId) \in DOMAIN st.channels THEN st
  ELSE OpenChannel(st, buildPairRoom(userId, otherUserId), "pair", otherUserId, gen)

\* The registry part of broadcastPairMessage: the room is opened, with no
\* callback, when it is not registered yet.
EnsurePairChannel(st, senderId, receiverId) ==
  IF buildPairRoom(senderId, receiverId) \in DOMAIN st.channels THEN st
  ELSE OpenChannel(st, buildPairRoom(senderId, receiverId), "none", NoUser, 0)

\* channel.send({type: 'broadcast', event: 'dm', payload}): one copy for
\* every other client that holds the room open.
BroadcastCopies(senderId, receiverId, msg) ==
  LET room == buildPairRoom(senderId, receiverId)
  IN  {[to |-> w, topic |-> room, msg |-> msg] :
         w \in {x \in Clients \ {senderId} :
                  \E c \in realtimeChannels[x] : c.topic = room}}

\* A postgres_changes event for every client of receivers that holds a
\* channel of that kind open, with the view that owns the callback.
ChannelEvents(kind, userId, id, isOnline, receivers) ==
  UNION {{[to |-> u, kind |-> kind, user |-> userId, id |-> id,
           is_online |-> isOnline, gen |-> c.gen] :
            c \in {d \in realtimeChannels[u] : d.kind = kind}} : u \in receivers}

\* cleanup(): removeChannel for every registered channel, then clear().
ClearRegistry(st) ==
  [channels |-> <<>>,
   open     |-> {c \in st.open : \A n \in DOMAIN st.channels : st.channels[n] # c.id}]

\* ------------------------------------------------------ typing indicators
\* upsert with no onConflict on a table whose only key is the defaulted id:
\* every call inserts a row.
UpsertTyping(table, userId, targetUserId, isTyping) ==
  table \cup {[n |-> Cardinality(table) + 1, user_id |-> userId,
               target_user_id |-> targetUserId, is_typing |-> isTyping]}

\* The names in scope where the upsert payload is built. The payload uses the
\* shorthand property is_typing, which reads a variable of that name.
TypingScope == {"userId", "targetUserId", "isTyping", "timeoutKey"}

\* sendTypingIndicator: the existing timeout is cleared; building the payload
\* raises a ReferenceError, which the catch logs, so neither the upsert nor
\* the auto-reset timer is reached.
sendTypingIndicator(timeouts, table, userId, targetUserId, isTyping) ==
  LET timeoutKey == userId \o StrDash \o targetUserId
      cleared    == timeouts \ {timeoutKey}
  IN  IF "is_typing" \notin TypingScope
      THEN [timeouts |-> cleared, table |-> table]
      ELSE [timeouts |-> IF isTyping THEN cleared \cup {timeoutKey} ELSE cleared,
            table    |-> UpsertTyping(table, userId, targetUserId, isTyping)]

\* ------------------------------------------------------------------- Init
NoEvents ==
  /\ listEvents = {}
  /\ statusLookups = [u \in Clients |-> {}]
  /\ eventCount = 0

\* The Messages page is not open: its state as useState initialises it, and
\* nothing in flight.
MessagesPageState ==
  /\ loading = TRUE
  /\ pageConversations = {}
  /\ conversationsRef = 0
  /\ selectedUserId = NoUser
  /\ pageMessages = <<>>
  /\ otherProfile = NoUser
  /\ subscribedFor = NoUser
  /\ messageFetches = {}
  /\ profileFetches = {}
  /\ tempSends = {}
  /\ sendsMade = 0
  /\ clock = 0
  /\ alerts = 0
  /\ incoming = {}

MessagesPageClosed ==
  /\ MessagesPageState
  /\ effectsDue = FALSE
  /\ conversationFetches = {}

IdleSend == [pc |-> "idle", to |-> NoUser, id |-> 0, gen |-> 0]
NoTypingCall == [target |-> NoUser, isTyping |-> FALSE]

InitClients ==
  /\ channels = [u \in Clients |-> <<>>]
  /\ realtimeChannels = [u \in Clients |-> {}]
  /\ typingTimeouts = [u \in Clients |-> {}]
  /\ cleanupPending = [u \in Clients |-> 0]
  /\ promotionTimers = {}
  /\ broadcasts = {}
  /\ send = [u \in Clients |-> IdleSend]
  /\ sendCount = 0
  /\ typingCall = [u \in Clients |-> NoTypingCall]
  /\ mounted = [u \in Clients |-> FALSE]
  /\ mountCount = [u \in Clients |-> 0]
  /\ initPc = [u \in Clients |-> "idle"]
  /\ convData = [u \in Clients |-> <<>>]
  /\ conversations = [u \in Clients |-> <<>>]
  /\ selected = [u \in Clients |-> NoUser]
  /\ thread = [u \in Clients |-> <<>>]
  /\ loads = [u \in Clients |-> {}]
  /\ pageIdleTimers = [u \in Clients |-> {}]
  /\ lastSendResult = [u \in Clients |-> "none"]

\* The database as a session finds it: the conversation of ua and ub is new or
\* already holds DefaultLimit messages; uc has exchanged no message; the
\* deployment may or may not let a participant update a message row.
InitDb ==
  /\ messages \in {PriorHistory(n) : n \in InitialHistories}
  /\ user_status = {}
  /\ typing_indicators = {}
  /\ profiles = Users
  /\ rlsMessagesUpdate \in BOOLEAN

Init ==
  /\ InitDb
  /\ InitClients
  /\ roomArgs = <<>>
  /\ roomOut = <<>>
  /\ callArgs = <<>>
  /\ callOut = <<>>
  /\ NoEvents
  /\ MessagesPageClosed

\* The registry of a client right after its first mount.
MountedRegistry(u) ==
  subscribeToUserStatus(
    subscribeToTypingIndicators(
      subscribeToProfiles(
        subscribeToMessages([channels |-> <<>>, open |-> {}], u, 1), 1), u, 1), 1)

\* Both views open: ua has mounted and run initializeChat, then ub has.
InitOpen ==
  /\ messages \in {PriorHistory(n) : n \in InitialHistories}
  /\ user_status = {[user_id |-> ua, is_online |-> TRUE], [user_id |-> ub, is_online |-> TRUE]}
  /\ typing_indicators = {}
  /\ profiles = Users
  /\ rlsMessagesUpdate \in BOOLEAN
  /\ channels = [u \in Clients |-> MountedRegistry(u).channels]
  /\ realtimeChannels = [u \in Clients |-> MountedRegistry(u).open]
  /\ typingTimeouts = [u \in Clients |-> {}]
  /\ cleanupPending = [u \in Clients |-> 0]
  /\ promotionTimers = {}
  /\ broadcasts = {}
  /\ send = [u \in Clients |-> IdleSend]
  /\ sendCount = 0
  /\ typingCall = [u \in Clients |-> NoTypingCall]
  /\ mounted = [u \in Clients |-> TRUE]
  /\ mountCount = [u \in Clients |-> 1]
  /\ initPc = [u \in Clients |-> "idle"]
  /\ convData = [u \in Clients |-> <<>>]
  /\ \E fetched \in {[u \in Clients |->
                       getConversations(messages,
                         IF u = ua THEN {[user_id |-> ua, is_online |-> TRUE]}
                                   ELSE user_status,
                         profiles, u)]} :
       conversations = [u \in Clients |->
         MergeDirectory(fetched[u], getAllUsersExcept(profiles, u),
           getOnlineUsers(IF u = ua THEN {[user_id |-> ua, is_online |-> TRUE]}
                                    ELSE user_status,
                          profiles, u))]
  /\ selected = [u \in Clients |-> NoUser]
  /\ thread = [u \in Clients |-> <<>>]
  /\ loads = [u \in Clients |-> {}]
  /\ pageIdleTimers = [u \in Clients |-> {}]
  /\ lastSendResult = [u \in Clients |-> "none"]
  /\ roomArgs = <<>>
  /\ roomOut = <<>>
  /\ callArgs = <<>>
  /\ callOut = <<>>
  /\ NoEvents
  /\ MessagesPageClosed

\* ----------------------------------------------- the view: mount, unmount
\* The two mount effects: initializeChat() starts, the four change feeds are
\* subscribed. The state of the component is fresh.
Mount(u) ==
  /\ ~mounted[u]
  /\ mountCount[u] < MaxMounts
  /\ initPc[u] = "idle"
  /\ LET gen == mountCount[u] + 1
         st  == subscribeToUserStatus(
                  subscribeToTypingIndicators(
                    subscribeToProfiles(
                      subscribeToMessages(Registry(u), u, gen), gen), u, gen), gen)
     IN  /\ mountCount' = [mountCount EXCEPT ![u] = gen]
         /\ channels' = [channels EXCEPT ![u] = st.channels]
         /\ realtimeChannels' = [realtimeChannels EXCEPT ![u] = st.open]
  /\ mounted' = [mounted EXCEPT ![u] = TRUE]
  /\ initPc' = [initPc EXCEPT ![u] = "status"]
  /\ convData' = [convData EXCEPT ![u] = <<>>]
  /\ conversations' = [conversations EXCEPT ![u] = <<>>]
  /\ selected' = [selected EXCEPT ![u] = NoUser]
  /\ thread' = [thread EXCEPT ![u] = <<>>]
  /\ lastSendResult' = [lastSendResult EXCEPT ![u] = "none"]
  /\ UNCHANGED <<dbVars, timerVars, svcVars, loads, roomVars, callVars, evVars, mpVars>>

\* initializeChat: await initializeUserStatus(user.id)
InitChatStatus(u) ==
  /\ initPc[u] = "status"
  /\ user_status' = initializeUserStatus(user_status, u)
  /\ initPc' = [initPc EXCEPT ![u] = "conversations"]
  /\ UNCHANGED <<messages, typing_indicators, profiles, rlsMessagesUpdate, chanVars,
                 timerVars, cleanupPending, broadcasts, send, sendCount, typingCall,
                 mounted, mountCount, convData, conversations, selected, thread,
                 loads, lastSendResult, roomVars, callVars, evVars, mpVars>>

\* initializeChat: await getConversations(user.id)
InitChatConversations(u) ==
  /\ initPc[u] = "conversations"
  /\ convData' = [convData EXCEPT ![u] = getConversations(messages, user_status, profiles, u)]
  /\ initPc' = [initPc EXCEPT ![u] = "merge"]
  /\ UNCHANGED <<dbVars, chanVars, timerVars, svcVars, mounted, mountCount,
                 conversations, selected, thread, loads, lastSendResult, roomVars, callVars, evVars, mpVars>>

\* initializeChat: await Promise.all([getAllUsersExcept, getOnlineUsers]), the
\* merge, the sort, setConversations (dropped when the view is gone).
InitChatMerge(u) ==
  /\ initPc[u] = "merge"
  /\ LET allUsers == getAllUsersExcept(profiles, u)
         online   == getOnlineUsers(user_status, profiles, u)
     IN  conversations' = [conversations EXCEPT ![u] =
           IF mounted[u] THEN MergeDirectory(convData[u], allUsers, online) ELSE @]
  /\ convData' = [convData EXCEPT ![u] = <<>>]
  /\ initPc' = [initPc EXCEPT ![u] = "idle"]
  /\ UNCHANGED <<dbVars, chanVars, timerVars, svcVars, mounted, mountCount,
                 selected, thread, loads, lastSendResult, roomVars, callVars, evVars, mpVars>>

\* The unmount effect calls cleanup(user.id), which first awaits
\* updateUserStatus(userId, false). The state of the component goes with it.
Unmount(u) ==
  /\ mounted[u]
  /\ mounted' = [mounted EXCEPT ![u] = FALSE]
  /\ user_status' = updateUserStatus(user_status, u, FALSE)
  /\ cleanupPending' = [cleanupPending EXCEPT ![u] = @ + 1]
  /\ conversations' = [conversations EXCEPT ![u] = <<>>]
  /\ selected' = [selected EXCEPT ![u] = NoUser]
  /\ thread' = [thread EXCEPT ![u] = <<>>]
  /\ UNCHANGED <<messages, typing_indicators, profiles, rlsMessagesUpdate, chanVars,
                 timerVars, broadcasts, send, sendCount, typingCall, mountCount,
                 initPc, convData, loads, lastSendResult, roomVars, callVars, evVars, mpVars>>

\* cleanup() after the await: every registered channel is removed, the
\* registry and the typing timeouts are cleared.
CleanupFinish(u) ==
  /\ cleanupPending[u] > 0
  /\ cleanupPending' = [cleanupPending EXCEPT ![u] = @ - 1]
  /\ LET st == ClearRegistry(Registry(u))
     IN  /\ channels' = [channels EXCEPT ![u] = st.channels]
         /\ realtimeChannels' = [realtimeChannels EXCEPT ![u] = st.open]
  /\ typingTimeouts' = [typingTimeouts EXCEPT ![u] = {}]
  /\ UNCHANGED <<dbVars, promotionTimers, pageIdleTimers, broadcasts, send, sendCount,
                 typingCall, pageVars, roomVars, callVars, evVars, mpVars>>

\* ------------------------------------------- the view: the open conversation
ConversationIds(u) == {conversations[u][i].user_id : i \in 1..Len(conversations[u])}

\* A click on an entry of the list: setSelectedUserId, whose effect starts
\* loadMessages() and subscribes the pair room.
Select(u, v) ==
  /\ mounted[u]
  /\ v \in ConversationIds(u)
  /\ v # selected[u]
  /\ selected' = [selected EXCEPT ![u] = v]
  /\ loads' = [loads EXCEPT ![u] = @ \cup {[peer |-> v, pc |-> "fetch", gen |-> mountCount[u]]}]
  /\ LET st == subscribeToPairBroadcast(Registry(u), u, v, mountCount[u])
     IN  /\ channels' = [channels EXCEPT ![u] = st.channels]
         /\ realtimeChannels' = [realtimeChannels EXCEPT ![u] = st.open]
  /\ UNCHANGED <<dbVars, timerVars, svcVars, mounted, mountCount, initPc, convData,
                 conversations, thread, lastSendResult, roomVars, callVars, evVars, mpVars>>

Ids(rows) == [i \in 1..Len(rows) |-> rows[i].id]

\* loadMessages: await getMessages(user.id, selectedUserId); setMessages.
LoadFetch(u, l) ==
  /\ l \in loads[u]
  /\ l.pc = "fetch"
  /\ thread' = [thread EXCEPT ![u] =
       IF mounted[u] /\ l.gen = mountCount[u]
       THEN Ids(getMessages(messages, u, l.peer, DefaultLimit, DefaultOffset))
       ELSE @]
  /\ loads' = [loads EXCEPT ![u] = (@ \ {l}) \cup {[l EXCEPT !.pc = "mark"]}]
  /\ UNCHANGED <<dbVars, chanVars, timerVars, svcVars, mounted, mountCount, initPc,
                 convData, conversations, selected, lastSendResult, roomVars, callVars, evVars, mpVars>>

\* loadMessages: await markMessagesAsRead(selectedUserId, user.id)
LoadMark(u, l) ==
  /\ l \in loads[u]
  /\ l.pc = "mark"
  /\ messages' = markMessagesAsRead(messages, l.peer, u)
  /\ loads' = [loads EXCEPT ![u] = @ \ {l}]
  /\ UNCHANGED <<user_status, typing_indicators, profiles, rlsMessagesUpdate, chanVars,
                 timerVars, svcVars, mounted, mountCount, initPc, convData,
                 conversations, selected, thread, lastSendResult, roomVars, callVars, evVars, mpVars>>

\* updateConversationsList(message): the preview of the peer is updated in
\* place, or a new one is put first.
updateConversationsList(list, userId, message, otherName, onlineUsers) ==
  LET otherUserId == IF message.sender_id = userId THEN message.receiver_id
                     ELSE message.sender_id
      inc == IF message.sender_id # userId THEN 1 ELSE 0
      i   == IndexOfUser(list, otherUserId)
  IN  IF i > 0
      THEN [list EXCEPT ![i].last_message = message.created_at,
                        ![i].unread_count = @ + inc]
      ELSE <<Preview(otherUserId, otherName, message.created_at, inc,
                     otherUserId \in onlineUsers)>> \o list

\* ------------------------------------------------------------ sendMessage
\* The page's sendMessage up to the insert of the service's sendMessage.
\* outcome: the insert returns the row ("ok"), returns an error ("error":
\* null is returned at once) or throws ("throw": the outer catch broadcasts a
\* message with a random id and returns null). The inserted row is announced
\* on the change feed of the receiver.
PageSend(u, outcome, tempThrows) ==
  /\ mounted[u]
  /\ selected[u] # NoUser
  /\ send[u].pc = "idle"
  /\ sendCount < MaxSends
  /\ sendCount' = sendCount + 1
  /\ CASE outcome = "ok" ->
            /\ messages' = InsertMessage(messages, u, selected[u])
            /\ send' = [send EXCEPT ![u] = [pc |-> "inserted", to |-> selected[u],
                                            id |-> Len(messages) + 1, gen |-> mountCount[u]]]
            /\ listEvents' = listEvents \cup
                 ChannelEvents("messages", u, Len(messages) + 1, FALSE,
                               Clients \cap {selected[u]})
            /\ UNCHANGED <<chanVars, broadcasts, lastSendResult>>
       [] outcome = "error" ->
            /\ lastSendResult' = [lastSendResult EXCEPT ![u] = "null"]
            /\ UNCHANGED <<messages, chanVars, broadcasts, send, listEvents>>
       [] outcome = "throw" ->
            /\ LET st   == EnsurePairChannel(Registry(u), u, selected[u])
                   temp == [id |-> 0 - (sendCount + 1), sender_id |-> u,
                            receiver_id |-> selected[u]]
               IN  /\ channels' = [channels EXCEPT ![u] = st.channels]
                   /\ realtimeChannels' = [realtimeChannels EXCEPT ![u] = st.open]
                   /\ broadcasts' = IF tempThrows THEN broadcasts
                                    ELSE broadcasts \cup BroadcastCopies(u, selected[u], temp)
            /\ lastSendResult' = [lastSendResult EXCEPT ![u] = "null"]
            /\ UNCHANGED <<messages, send, listEvents>>
  /\ UNCHANGED <<user_status, typing_indicators, profiles, rlsMessagesUpdate, timerVars,
                 cleanupPending, typingCall, mounted, mountCount, initPc,
                 convData, conversations, selected, thread, loads, roomVars, callVars,
                 statusLookups, eventCount,
                 mpVars>>

\* sendMessage after a successful insert. hydrateThrows: the profile lookups
\* throw; bc1Throws, bc2Throws, bc3Throws: broadcastPairMessage throws in the
\* try block, in the fallback, in the outer catch. Every block that builds
\* its result schedules a promotion to 'delivered'. Then the page appends the
\* returned message and updates its list, or sees null.
SendFinish(u, hydrateThrows, bc1Throws, bc2Throws, bc3Throws) ==
  /\ send[u].pc = "inserted"
  /\ LET to        == send[u].to
         row       == messages[send[u].id]
         result    == [id |-> row.id, sender_id |-> row.sender_id,
                       receiver_id |-> row.receiver_id]
         temp      == [id |-> 0 - sendCount, sender_id |-> u, receiver_id |-> to]
         fallback  == hydrateThrows \/ bc1Throws
         outer     == fallback /\ bc2Throws
         sentRes   == (~hydrateThrows /\ ~bc1Throws) \/ (fallback /\ ~bc2Throws)
         sentTemp  == outer /\ ~bc3Throws
         timers    == (IF ~hydrateThrows THEN {[owner |-> u, id |-> row.id, site |-> 1]} ELSE {})
                      \cup (IF fallback THEN {[owner |-> u, id |-> row.id, site |-> 2]} ELSE {})
         st        == EnsurePairChannel(Registry(u), u, to)
         shown     == mounted[u] /\ send[u].gen = mountCount[u]
         otherName == IF hydrateThrows \/ bc1Throws THEN StrUnknownUser
                      ELSE ProfileName(profiles, to)
     IN  /\ promotionTimers' = promotionTimers \cup timers
         /\ channels' = [channels EXCEPT ![u] = st.channels]
         /\ realtimeChannels' = [realtimeChannels EXCEPT ![u] = st.open]
         /\ broadcasts' = broadcasts
              \cup (IF sentRes THEN BroadcastCopies(u, to, result) ELSE {})
              \cup (IF sentTemp THEN BroadcastCopies(u, to, temp) ELSE {})
         /\ lastSendResult' = [lastSendResult EXCEPT ![u] = IF outer THEN "null" ELSE "ok"]
         /\ thread' = [thread EXCEPT ![u] =
              IF ~outer /\ shown THEN Append(@, row.id) ELSE @]
         /\ conversations' = [conversations EXCEPT ![u] =
              IF ~outer /\ shown
              THEN updateConversationsList(@, u, row, otherName, {})
              ELSE @]
  /\ send' = [send EXCEPT ![u] = IdleSend]
  /\ UNCHANGED <<dbVars, typingTimeouts, pageIdleTimers, cleanupPending, sendCount,
                 typingCall, mounted, mountCount, initPc, convData,
                 selected, loads, roomVars, callVars, evVars, mpVars>>

\* The 800 ms timer: updateMessageStatus(result.id, 'delivered')
PromoteFire(t) ==
  /\ t \in promotionTimers
  /\ promotionTimers' = promotionTimers \ {t}
  /\ messages' = updateMessageStatus(messages, t.id, "delivered")
  /\ UNCHANGED <<user_status, typing_indicators, profiles, rlsMessagesUpdate, chanVars,
                 typingTimeouts, pageIdleTimers, svcVars, pageVars, roomVars, callVars, evVars, mpVars>>

\* A 'dm' broadcast reaches a client: the callback of its pair room, when it
\* has one and the payload matches the pair, appends to the thread.
BroadcastDeliver(b) ==
  /\ b \in broadcasts
  /\ broadcasts' = broadcasts \ {b}
  /\ LET w == b.to
         accepting ==
           {c \in realtimeChannels[w] :
              /\ c.topic = b.topic
              /\ c.kind = "pair"
              /\ \/ b.msg.sender_id = w /\ b.msg.receiver_id = c.peer
                 \/ b.msg.sender_id = c.peer /\ b.msg.receiver_id = w
              /\ mounted[w] /\ c.gen = mountCount[w]}
     IN  thread' = [thread EXCEPT ![w] = IF accepting # {} THEN Append(@, b.msg.id) ELSE @]
  /\ UNCHANGED <<dbVars, chanVars, timerVars, cleanupPending, send, sendCount,
                 typingCall, mounted, mountCount, initPc, convData,
                 conversations, selected, loads, lastSendResult, roomVars, callVars, evVars, mpVars>>

\* ------------------------------------------------------------------ typing
\* handleTyping: sendTypingIndicator(user.id, selectedUserId, true), then the
\* idle timer of the view is cleared and set again.
Keystroke(u) ==
  /\ mounted[u]
  /\ selected[u] # NoUser
  /\ LET r == sendTypingIndicator(typingTimeouts[u], typing_indicators, u, selected[u], TRUE)
     IN  /\ typingTimeouts' = [typingTimeouts EXCEPT ![u] = r.timeouts]
         /\ typing_indicators' = r.table
  /\ typingCall' = [typingCall EXCEPT ![u] = [target |-> selected[u], isTyping |-> TRUE]]
  /\ pageIdleTimers' = [pageIdleTimers EXCEPT ![u] =
       {t \in @ : t.gen # mountCount[u]} \cup {[gen |-> mountCount[u], peer |-> selected[u]]}]
  /\ UNCHANGED <<messages, user_status, profiles, rlsMessagesUpdate, chanVars,
                 promotionTimers, cleanupPending, broadcasts, send, sendCount,
                 pageVars, roomVars, callVars, evVars, mpVars>>

\* The 1-second idle timer: sendTypingIndicator(user.id, selectedUserId, false)
PageIdleFire(u, t) ==
  /\ t \in pageIdleTimers[u]
  /\ pageIdleTimers' = [pageIdleTimers EXCEPT ![u] = @ \ {t}]
  /\ LET r == sendTypingIndicator(typingTimeouts[u], typing_indicators, u, t.peer, FALSE)
     IN  /\ typingTimeouts' = [typingTimeouts EXCEPT ![u] = r.timeouts]
         /\ typing_indicators' = r.table
  /\ typingCall' = [typingCall EXCEPT ![u] = [target |-> t.peer, isTyping |-> FALSE]]
  /\ UNCHANGED <<messages, user_status, profiles, rlsMessagesUpdate, chanVars,
                 promotionTimers, cleanupPending, broadcasts, send, sendCount,
                 pageVars, roomVars, callVars, evVars, mpVars>>

\* ------------------------------------------------------------ specification
\* ------------------------------------- the list and the realtime events
\* The callback of subscribeToProfiles in the page: the entry is renamed, or
\* a new one is put first. onlineUsers is the set of the render the effect
\* ran in.
onUpsert(list, p, name, onlineUsers) ==
  LET i == IndexOfUser(list, p)
  IN  IF i > 0 THEN [list EXCEPT ![i].name = name]
      ELSE <<Preview(p, name, 0, 0, p \in onlineUsers)>> \o list

\* The callback of subscribeToUserStatus in the page, as far as it is
\* synchronous: the entry is marked, or, for a user that came online and has
\* no entry, one is made from onlineDirectory (that of the render the effect
\* ran in) or a lookup is started.
onStatusChange(list, userId, isOnline, onlineDirectory) ==
  LET i == IndexOfUser(list, userId)
  IN  IF i > 0 THEN [list |-> [list EXCEPT ![i].is_online = isOnline], lookup |-> FALSE]
      ELSE IF ~isOnline THEN [list |-> list, lookup |-> FALSE]
      ELSE IF userId \in onlineDirectory
      THEN [list |-> <<Preview(userId, userId, 0, 0, TRUE)>> \o list, lookup |-> FALSE]
      ELSE [list |-> list, lookup |-> TRUE]

\* Another session of v (or v's first) runs initializeUserStatus(v); a row
\* that is written is announced to every subscribed page, v's own included:
\* the subscription has no filter.
StatusWritten(v) ==
  /\ eventCount < MaxEvents
  /\ LET r == UpsertUserStatus(user_status, v, TRUE)
     IN  /\ ~r.error
         /\ user_status' = r.table
  /\ listEvents' = listEvents \cup ChannelEvents("status", v, 0, TRUE, Clients)
  /\ eventCount' = eventCount + 1
  /\ UNCHANGED <<messages, typing_indicators, profiles, rlsMessagesUpdate, chanVars,
                 timerVars, svcVars, pageVars, roomVars, callVars, statusLookups,
                 mpVars>>

\* v's profiles row is created or updated, and the change is announced to
\* every subscribed page, v's own included: the subscription has no filter.
ProfileWritten(v) ==
  /\ eventCount < MaxEvents
  /\ profiles' = profiles \cup {v}
  /\ listEvents' = listEvents \cup ChannelEvents("profiles", v, 0, FALSE, Clients)
  /\ eventCount' = eventCount + 1
  /\ UNCHANGED <<messages, user_status, typing_indicators, rlsMessagesUpdate, chanVars,
                 timerVars, svcVars, pageVars, roomVars, callVars, statusLookups,
                 mpVars>>

\* v, from a session that is not modelled, sends a message to u.
MessageWritten(v, u) ==
  /\ eventCount < MaxEvents
  /\ v # u
  /\ messages' = InsertMessage(messages, v, u)
  /\ listEvents' = listEvents \cup ChannelEvents("messages", v, Len(messages) + 1, FALSE, {u})
  /\ eventCount' = eventCount + 1
  /\ UNCHANGED <<user_status, typing_indicators, profiles, rlsMessagesUpdate, chanVars,
                 timerVars, svcVars, pageVars, roomVars, callVars, statusLookups,
                 mpVars>>

\* v, from a session that is not modelled, runs sendMessage(v, u, content)
\* of the realtime service with nothing failing: the row, its change-feed
\* event, the broadcast on the pair room.
PeerSendMessage(v, u) ==
  /\ eventCount < MaxEvents
  /\ v # u
  /\ messages' = InsertMessage(messages, v, u)
  /\ listEvents' = listEvents \cup ChannelEvents("messages", v, Len(messages) + 1, FALSE, {u})
  /\ broadcasts' = broadcasts \cup
       BroadcastCopies(v, u, [id |-> Len(messages) + 1, sender_id |-> v, receiver_id |-> u])
  /\ eventCount' = eventCount + 1
  /\ UNCHANGED <<user_status, typing_indicators, profiles, rlsMessagesUpdate, chanVars,
                 timerVars, cleanupPending, send, sendCount, typingCall, pageVars,
                 roomVars, callVars, statusLookups,
                 mpVars>>

\* An event reaches the callback the service gave the channel, which may
\* await a profile lookup and then calls the callback of the page; the state
\* setters of a view that is gone do nothing.
EventDeliver(e) ==
  /\ e \in listEvents
  /\ listEvents' = listEvents \ {e}
  /\ LET u     == e.to
         alive == mounted[u] /\ e.gen = mountCount[u]
         st    == onStatusChange(conversations[u], e.user, e.is_online, {})
     IN  CASE e.kind = "status" ->
                /\ conversations' = [conversations EXCEPT ![u] =
                     IF alive /\ e.user \in profiles THEN st.list ELSE @]
                /\ statusLookups' = [statusLookups EXCEPT ![u] =
                     IF alive /\ e.user \in profiles /\ st.lookup
                     THEN @ \cup {[user |-> e.user, gen |-> e.gen]} ELSE @]
                /\ UNCHANGED thread
          [] e.kind = "profiles" ->
                /\ conversations' = [conversations EXCEPT ![u] =
                     IF alive THEN onUpsert(@, e.user, ProfileName(profiles, e.user), {})
                     ELSE @]
                /\ UNCHANGED <<statusLookups, thread>>
          [] e.kind = "messages" ->
                /\ conversations' = [conversations EXCEPT ![u] =
                     IF alive
                     THEN updateConversationsList(@, u, messages[e.id],
                                                  ProfileName(profiles, e.user), {})
                     ELSE @]
                /\ thread' = [thread EXCEPT ![u] = IF alive THEN Append(@, e.id) ELSE @]
                /\ UNCHANGED statusLookups
  /\ UNCHANGED <<dbVars, chanVars, timerVars, svcVars, mounted, mountCount, initPc,
                 convData, selected, loads, lastSendResult, roomVars, callVars, eventCount,
                 mpVars>>

\* The lookup of the status callback returns: the user found in
\* getOnlineUsers(user.id) is put first.
LookupFinish(u, l) ==
  /\ l \in statusLookups[u]
  /\ statusLookups' = [statusLookups EXCEPT ![u] = @ \ {l}]
  /\ conversations' = [conversations EXCEPT ![u] =
       IF /\ mounted[u] /\ l.gen = mountCount[u]
          /\ l.user \in getOnlineUsers(user_status, profiles, u)
       THEN <<Preview(l.user, ProfileName(profiles, l.user), 0, 0, TRUE)>> \o @
       ELSE @]
  /\ UNCHANGED <<dbVars, chanVars, timerVars, svcVars, mounted, mountCount, initPc,
                 convData, selected, thread, loads, lastSendResult, roomVars, callVars,
                 listEvents, eventCount,
                 mpVars>>

SendOutcomes == {"ok", "error", "throw"}

\* ------------------------------------------------------ the Messages page
\* client/pages/Messages.tsx, opened by ua.  It imports fetchConversations,
\* fetchMessages, sendMessage and subscribeToIncoming from
\* client/lib/messaging.service, which is not part of the sources at hand:
\* these four follow the design document (sections 4.1 to 4.3).

\* "demo-user-"
StrDemoUser == <<100, 101, 109, 111, 45, 117, 115, 101, 114, 45>>

\* String.prototype.startsWith
StartsWith(str, prefix) ==
  /\ Len(str) >= Len(prefix)
  /\ SubSeq(str, 1, Len(prefix)) = prefix

\* "demo-user-1" .. "demo-user-4"
DemoUser(k) == Append(StrDemoUser, 48 + k)
DemoUsers == {DemoUser(k) : k \in 1..4}

\* demoConversations: the four previews, by their user and unread_count.
demoConversations ==
  {[user_id |-> DemoUser(1), unread_count |-> 2],
   [user_id |-> DemoUser(2), unread_count |-> 0],
   [user_id |-> DemoUser(3), unread_count |-> 1],
   [user_id |-> DemoUser(4), unread_count |-> 0]}

\* An entry of the thread: a row of public.messages, a demo message, or the
\* temporary entry of a send, `temp-${Date.now()}`.
SavedEntry(id) == [kind |-> "row", n |-> id]
DemoEntry(k, i) == [kind |-> "demo", n |-> 10 * k + i]
TempEntry(now) == [kind |-> "temp", n |-> now]

\* demoMessages[userId] || []
demoMessages(userId) ==
  IF userId = DemoUser(3) THEN [i \in 1..3 |-> DemoEntry(3, i)]
  ELSE IF userId = DemoUser(1) THEN [i \in 1..4 |-> DemoEntry(1, i)]
  ELSE IF userId = DemoUser(2) THEN [i \in 1..4 |-> DemoEntry(2, i)]
  ELSE IF userId = DemoUser(4) THEN [i \in 1..4 |-> DemoEntry(4, i)]
  ELSE <<>>

\* fetch(userA, userB): the rows between the two, ascending by creation time.
RECURSIVE fetchMessages(_, _, _)
fetchMessages(table, userA, userB) ==
  IF table = <<>> THEN <<>>
  ELSE LET m == Head(table)
           rest == fetchMessages(Tail(table), userA, userB)
       IN  IF \/ (m.sender_id = userA /\ m.receiver_id = userB)
              \/ (m.sender_id = userB /\ m.receiver_id = userA)
           THEN <<SavedEntry(m.id)>> \o rest
           ELSE rest

\* listConversations(user): one preview per peer of a message touching user,
\* unread counted as the messages whose sender is not user.  The order of the
\* previews, which the page never consults, is left out.
fetchConversations(table, user) ==
  LET touching == {i \in 1..Len(table) :
                     table[i].sender_id = user \/ table[i].receiver_id = user}
      peerOf(i) == IF table[i].sender_id = user THEN table[i].receiver_id
                   ELSE table[i].sender_id
  IN  {[user_id |-> v,
        unread_count |-> Cardinality({i \in touching : table[i].sender_id = v})] :
         v \in {peerOf(i) : i \in touching}}

\* conversations.find((c) => c.user_id === selectedUserId)?.profile || null
ListedProfile(list, userId) ==
  IF \E c \in list : c.user_id = userId THEN userId ELSE NoUser

\* prev.map((c) => (c.user_id === selectedUserId ? { ...c, unread_count: 0 } : c))
ClearUnread(list, userId) ==
  {IF c.user_id = userId THEN [c EXCEPT !.unread_count = 0] ELSE c : c \in list}

\* ua opens the page, openWith being location.state.openWithUserId: the
\* first effect sets loading and calls fetchConversations.
OpenMessagesPage(openWith) ==
  /\ loading
  /\ conversationFetches = {}
  /\ conversationFetches' =
       {[list |-> fetchConversations(messages, ua), first |-> TRUE, openWith |-> openWith]}
  /\ UNCHANGED <<dbVars, chanVars, timerVars, svcVars, pageVars, roomVars, callVars,
                 evVars, loading, pageConversations, conversationsRef, selectedUserId, pageMessages,
                 otherProfile, effectsDue, subscribedFor, messageFetches,
                 profileFetches, tempSends, sendsMade, clock, alerts, incoming>>

\* fetchConversations(currentUserId).then(...): of the first effect (the list
\* with the demo conversations, loading off, the conversation of the route
\* state opened) or of a later refresh (setConversations).
ConversationsFetched(f) ==
  /\ f \in conversationFetches
  /\ conversationFetches' = conversationFetches \ {f}
  /\ pageConversations' = IF f.first THEN f.list \cup demoConversations ELSE f.list
  /\ conversationsRef' = 1 - conversationsRef
  /\ loading' = IF f.first THEN FALSE ELSE loading
  /\ selectedUserId' = IF f.first /\ f.openWith # NoUser THEN f.openWith
                       ELSE selectedUserId
  /\ effectsDue' = TRUE
  /\ UNCHANGED <<dbVars, chanVars, timerVars, svcVars, pageVars, roomVars, callVars,
                 evVars, pageMessages, otherProfile, subscribedFor, messageFetches,
                 profileFetches, tempSends, sendsMade, clock, alerts, incoming>>

\* onSelect of the ChatList: setSelectedUserId(uid); setting the value the
\* state has renders nothing.
SelectConversation(uid) ==
  /\ ~loading
  /\ \E c \in pageConversations : c.user_id = uid
  /\ uid # selectedUserId
  /\ selectedUserId' = uid
  /\ effectsDue' = TRUE
  /\ UNCHANGED <<dbVars, chanVars, timerVars, svcVars, pageVars, roomVars, callVars,
                 evVars, loading, pageConversations, conversationsRef, pageMessages, otherProfile,
                 subscribedFor, conversationFetches, messageFetches, profileFetches,
                 tempSends, sendsMade, clock, alerts, incoming>>

\* The effects run after a render that changed selectedUserId or
\* conversations: the second subscribes again with the selectedUserId of the
\* render; the third fetches the thread (or takes the demo thread), sets
\* otherProfile, and clears the unread badge with setConversations(prev.map),
\* whose result is a new array whatever it holds, so that the next render
\* finds the dependency `conversations` changed again.
RunEffects ==
  /\ effectsDue
  /\ subscribedFor' = selectedUserId
  /\ IF selectedUserId = NoUser
     THEN /\ effectsDue' = FALSE
          /\ UNCHANGED <<pageConversations, conversationsRef, pageMessages,
                         otherProfile, messageFetches, profileFetches>>
     ELSE /\ effectsDue' = TRUE
          /\ pageConversations' = ClearUnread(pageConversations, selectedUserId)
          /\ conversationsRef' = 1 - conversationsRef
          /\ otherProfile' = ListedProfile(pageConversations, selectedUserId)
          /\ IF StartsWith(selectedUserId, StrDemoUser)
             THEN /\ pageMessages' = demoMessages(selectedUserId)
                  /\ UNCHANGED <<messageFetches, profileFetches>>
             ELSE /\ messageFetches' = messageFetches \cup
                       {fetchMessages(messages, ua, selectedUserId)}
                  /\ profileFetches' =
                       IF ListedProfile(pageConversations, selectedUserId) = NoUser
                       THEN profileFetches \cup {selectedUserId}
                       ELSE profileFetches
                  /\ UNCHANGED pageMessages
  /\ UNCHANGED <<dbVars, chanVars, timerVars, svcVars, pageVars, roomVars, callVars,
                 evVars, loading, selectedUserId, conversationFetches, tempSends,
                 sendsMade, clock, alerts, incoming>>

\* fetchMessages(currentUserId, selectedUserId).then(setMessages)
MessagesFetched(r) ==
  /\ r \in messageFetches
  /\ messageFetches' = messageFetches \ {r}
  /\ pageMessages' = r
  /\ UNCHANGED <<dbVars, chanVars, timerVars, svcVars, pageVars, roomVars, callVars,
                 evVars, loading, pageConversations, conversationsRef, selectedUserId, otherProfile,
                 effectsDue, subscribedFor, conversationFetches, profileFetches,
                 tempSends, sendsMade, clock, alerts, incoming>>

\* The profile lookup of a conversation that is not listed yet returns:
\* if (data) setOtherProfile(data).
ProfileFetched(v) ==
  /\ v \in profileFetches
  /\ profileFetches' = profileFetches \ {v}
  /\ otherProfile' = IF v \in profiles THEN v ELSE otherProfile
  /\ UNCHANGED <<dbVars, chanVars, timerVars, svcVars, pageVars, roomVars, callVars,
                 evVars, loading, pageConversations, conversationsRef, selectedUserId, pageMessages,
                 effectsDue, subscribedFor, conversationFetches, messageFetches,
                 tempSends, sendsMade, clock, alerts, incoming>>

\* A millisecond passes.
Tick ==
  /\ clock < MaxClock
  /\ clock' = clock + 1
  /\ UNCHANGED <<dbVars, chanVars, timerVars, svcVars, pageVars, roomVars, callVars,
                 evVars, loading, pageConversations, conversationsRef, selectedUserId, pageMessages,
                 otherProfile, effectsDue, subscribedFor, conversationFetches,
                 messageFetches, profileFetches, tempSends, sendsMade, alerts, incoming>>

\* onSend of the InputBox, up to its await: the temporary entry is appended
\* and sendMessage(currentUserId, selectedUserId, text) is called.
OnSend ==
  /\ selectedUserId # NoUser
  /\ sendsMade < MaxPageSends
  /\ sendsMade' = sendsMade + 1
  /\ pageMessages' = Append(pageMessages, TempEntry(clock))
  /\ tempSends' = tempSends \cup
       {[call |-> sendsMade + 1, temp |-> TempEntry(clock), to |-> selectedUserId,
         saved |-> 0]}
  /\ UNCHANGED <<dbVars, chanVars, timerVars, svcVars, pageVars, roomVars, callVars,
                 evVars, loading, pageConversations, conversationsRef, selectedUserId, otherProfile,
                 effectsDue, subscribedFor, conversationFetches, messageFetches,
                 profileFetches, clock, alerts, incoming>>

\* send(sender, receiver, content) inserts the row; no row can be inserted
\* for a demo user, who has no account.
SendInserted(s) ==
  /\ s \in tempSends
  /\ s.saved = 0
  /\ s.to \in Users
  /\ Len(messages) < MaxRows
  /\ messages' = InsertMessage(messages, ua, s.to)
  /\ tempSends' = (tempSends \ {s}) \cup {[s EXCEPT !.saved = Len(messages) + 1]}
  /\ UNCHANGED <<user_status, typing_indicators, profiles, rlsMessagesUpdate, chanVars,
                 timerVars, svcVars, pageVars, roomVars, callVars, evVars, loading,
                 pageConversations, conversationsRef, selectedUserId, pageMessages, otherProfile,
                 effectsDue, subscribedFor, conversationFetches, messageFetches,
                 profileFetches, sendsMade, clock, alerts, incoming>>

\* onSend after the await, sendMessage having returned the saved row: the
\* entries with the id of the temporary one are replaced by it, and the
\* conversations are fetched again.
SendResolved(s) ==
  /\ s \in tempSends
  /\ s.saved # 0
  /\ tempSends' = tempSends \ {s}
  /\ pageMessages' = [i \in 1..Len(pageMessages) |->
                        IF pageMessages[i] = s.temp THEN SavedEntry(s.saved)
                        ELSE pageMessages[i]]
  /\ conversationFetches' = conversationFetches \cup
       {[list |-> fetchConversations(messages, ua), first |-> FALSE, openWith |-> NoUser]}
  /\ UNCHANGED <<dbVars, chanVars, timerVars, svcVars, pageVars, roomVars, callVars,
                 evVars, loading, pageConversations, conversationsRef, selectedUserId, otherProfile,
                 effectsDue, subscribedFor, messageFetches, profileFetches, sendsMade,
                 clock, alerts, incoming>>

\* onSend after the await, sendMessage having thrown: the entries with the id
\* of the temporary one are filtered out and the alert is shown.
SendRejected(s) ==
  /\ s \in tempSends
  /\ s.saved = 0
  /\ tempSends' = tempSends \ {s}
  /\ pageMessages' = SelectSeq(pageMessages, LAMBDA m : m # s.temp)
  /\ alerts' = alerts + 1
  /\ UNCHANGED <<dbVars, chanVars, timerVars, svcVars, pageVars, roomVars, callVars,
                 evVars, loading, pageConversations, conversationsRef, selectedUserId, otherProfile,
                 effectsDue, subscribedFor, conversationFetches, messageFetches,
                 profileFetches, sendsMade, clock, incoming>>

\* v, from a session that is not modelled, sends a message to ua: the row is
\* on its way to the inbound-insert subscription of the page.
IncomingWritten(v) ==
  /\ eventCount < MaxEvents
  /\ Len(messages) < MaxRows
  /\ v # ua
  /\ messages' = InsertMessage(messages, v, ua)
  /\ incoming' = incoming \cup {Len(messages) + 1}
  /\ eventCount' = eventCount + 1
  /\ UNCHANGED <<user_status, typing_indicators, profiles, rlsMessagesUpdate, chanVars,
                 timerVars, svcVars, pageVars, roomVars, callVars, listEvents,
                 statusLookups, loading, pageConversations, conversationsRef, selectedUserId,
                 pageMessages, otherProfile, effectsDue, subscribedFor,
                 conversationFetches, messageFetches, profileFetches, tempSends,
                 sendsMade, clock, alerts>>

\* The callback given to subscribeToIncoming: the message is appended when it
\* belongs to the conversation that was selected when the effect subscribed,
\* and the conversations are fetched again.
IncomingDelivered(id) ==
  /\ id \in incoming
  /\ incoming' = incoming \ {id}
  /\ pageMessages' =
       IF /\ subscribedFor # NoUser
          /\ (messages[id].sender_id = subscribedFor
                \/ messages[id].receiver_id = subscribedFor)
       THEN Append(pageMessages, SavedEntry(id))
       ELSE pageMessages
  /\ conversationFetches' = conversationFetches \cup
       {[list |-> fetchConversations(messages, ua), first |-> FALSE, openWith |-> NoUser]}
  /\ UNCHANGED <<dbVars, chanVars, timerVars, svcVars, pageVars, roomVars, callVars,
                 evVars, loading, pageConversations, conversationsRef, selectedUserId, otherProfile,
                 effectsDue, subscribedFor, messageFetches, profileFetches, tempSends,
                 sendsMade, clock, alerts>>

\* ------------------------------------- the Messages page on its own
\* ua in the Messages page, ub and uc writing to ua from elsewhere.
InitMessagesPage ==
  /\ messages \in {PriorHistory(n) : n \in {0, 1}}
  /\ user_status = {}
  /\ typing_indicators = {}
  /\ profiles = Users
  /\ rlsMessagesUpdate = FALSE
  /\ InitClients
  /\ roomArgs = <<>>
  /\ roomOut = <<>>
  /\ callArgs = <<>>
  /\ callOut = <<>>
  /\ NoEvents
  /\ MessagesPageClosed

NextMessagesPage ==
  \/ \E w \in {NoUser, ub} : OpenMessagesPage(w)
  \/ \E f \in conversationFetches : ConversationsFetched(f)
  \/ selectedUserId = NoUser /\ SelectConversation(DemoUser(1))
  \/ RunEffects
  \/ \E r \in messageFetches : MessagesFetched(r)
  \/ \E v \in profileFetches : ProfileFetched(v)
  \/ Tick
  \/ OnSend
  \/ \E s \in tempSends : SendInserted(s)
  \/ \E s \in tempSends : SendResolved(s)
  \/ \E s \in tempSends : SendRejected(s)
  \/ eventCount = 0 /\ IncomingWritten(ub)
  \/ \E id \in incoming : IncomingDelivered(id)

SpecMessagesPage == InitMessagesPage /\ [][NextMessagesPage]_vars

\* The Messages page before it is opened, over a history of up to MaxRows
\* messages; uc may have no profile.
InitSelection ==
  /\ messages \in {PriorHistory(n) : n \in 0..MaxRows}
  /\ user_status = {}
  /\ typing_indicators = {}
  /\ profiles \in {Users \ {uc}, Users}
  /\ rlsMessagesUpdate = FALSE
  /\ InitClients
  /\ roomArgs = <<>>
  /\ roomOut = <<>>
  /\ callArgs = <<>>
  /\ callOut = <<>>
  /\ NoEvents
  /\ MessagesPageClosed

\* One conversation is opened in the Messages page and nothing else happens;
\* an effect that is due runs, and a request in flight returns.
NextSelection ==
  \/ \E w \in {NoUser, ub, uc} : OpenMessagesPage(w)
  \/ \E f \in conversationFetches : ConversationsFetched(f)
  \/ \E uid \in Users \cup DemoUsers : selectedUserId = NoUser /\ SelectConversation(uid)
  \/ RunEffects
  \/ \E r \in messageFetches : MessagesFetched(r)
  \/ \E v \in profileFetches : ProfileFetched(v)

SpecSelectionFair ==
  /\ InitSelection
  /\ [][NextSelection]_vars
  /\ WF_vars(RunEffects)
  /\ WF_vars(\E f \in conversationFetches : ConversationsFetched(f))
  /\ WF_vars(\E r \in messageFetches : MessagesFetched(r))
  /\ WF_vars(\E v \in profileFetches : ProfileFetched(v))

Next ==
  \/ \E u \in Clients : Mount(u)
  \/ \E u \in Clients : InitChatStatus(u)
  \/ \E u \in Clients : InitChatConversations(u)
  \/ \E u \in Clients : InitChatMerge(u)
  \/ \E u \in Clients : Unmount(u)
  \/ \E u \in Clients : CleanupFinish(u)
  \/ \E u \in Clients, v \in Users : Select(u, v)
  \/ \E u \in Clients : \E l \in loads[u] : LoadFetch(u, l)
  \/ \E u \in Clients : \E l \in loads[u] : LoadMark(u, l)
  \/ \E u \in Clients, o \in SendOutcomes, x \in BOOLEAN : PageSend(u, o, x)
  \/ \E u \in Clients, h \in BOOLEAN, x \in BOOLEAN, y \in BOOLEAN, z \in BOOLEAN :
       SendFinish(u, h, x, y, z)
  \/ \E t \in promotionTimers : PromoteFire(t)
  \/ \E b \in broadcasts : BroadcastDeliver(b)
  \/ \E u \in Clients : Keystroke(u)
  \/ \E u \in Clients : \E t \in pageIdleTimers[u] : PageIdleFire(u, t)
  \/ \E v \in Users : StatusWritten(v)
  \/ \E v \in Users : ProfileWritten(v)
  \/ \E v \in Users, u \in Clients : MessageWritten(v, u)
  \/ \E e \in listEvents : EventDeliver(e)
  \/ \E u \in Clients : \E l \in statusLookups[u] : LookupFinish(u, l)
  \/ \E v \in Users, u \in Clients : PeerSendMessage(v, u)
  \/ \E w \in Users \cup {NoUser} : OpenMessagesPage(w)
  \/ \E f \in conversationFetches : ConversationsFetched(f)
  \/ \E uid \in Users \cup DemoUsers : SelectConversation(uid)
  \/ RunEffects
  \/ \E r \in messageFetches : MessagesFetched(r)
  \/ \E v \in profileFetches : ProfileFetched(v)
  \/ Tick
  \/ OnSend
  \/ \E s \in tempSends : SendInserted(s)
  \/ \E s \in tempSends : SendResolved(s)
  \/ \E s \in tempSends : SendRejected(s)
  \/ \E v \in Users : IncomingWritten(v)
  \/ \E id \in incoming : IncomingDelivered(id)

\* The whole program.
Spec == Init /\ [][Next]_vars

\* Presence and the directory: the sessions of the two clients. No message
\* row is updated, so the UPDATE policy is left out of the choice.
NextPresence ==
  \/ \E u \in Clients : Mount(u)
  \/ \E u \in Clients : InitChatStatus(u)
  \/ \E u \in Clients : InitChatConversations(u)
  \/ \E u \in Clients : InitChatMerge(u)
  \/ \E u \in Clients : Unmount(u)
  \/ \E u \in Clients : CleanupFinish(u)

InitPresence == Init /\ ~rlsMessagesUpdate

SpecPresence == InitPresence /\ [][NextPresence]_vars

\* The channel registry and the timers of one service instance, that of ua,
\* through its sessions: every action that opens or removes a channel or arms
\* a timer of the service, and the actions that enable them. An action of a
\* client writes the registry of that client alone, so ub stays away.
NextRegistry ==
  \/ Mount(ua)
  \/ InitChatStatus(ua)
  \/ InitChatConversations(ua)
  \/ InitChatMerge(ua)
  \/ Unmount(ua)
  \/ CleanupFinish(ua)
  \/ \E v \in Users : Select(ua, v)
  \/ \E o \in SendOutcomes, x \in BOOLEAN : PageSend(ua, o, x)
  \/ \E h \in BOOLEAN, x \in BOOLEAN, y \in BOOLEAN, z \in BOOLEAN :
       SendFinish(ua, h, x, y, z)

InitFresh == Init /\ messages = <<>> /\ ~rlsMessagesUpdate

SpecRegistry == InitFresh /\ [][NextRegistry]_vars

\* The same sessions with the timers of the service running: a delayed
\* promotion that is pending may fire at any step.
NextCleanup ==
  \/ NextRegistry
  \/ \E t \in promotionTimers : PromoteFire(t)

SpecCleanup == InitFresh /\ [][NextCleanup]_vars

\* One session of each client, from both views open: the conversation of ua
\* and ub is opened, messages are sent, fetched, marked read, promoted and
\* broadcast.
NextThread ==
  \/ \E u \in Clients, v \in Clients : Select(u, v)
  \/ \E u \in Clients : \E l \in loads[u] : LoadFetch(u, l)
  \/ \E u \in Clients : \E l \in loads[u] : LoadMark(u, l)
  \/ \E u \in Clients, o \in SendOutcomes, x \in BOOLEAN : PageSend(u, o, x)
  \/ \E u \in Clients, h \in BOOLEAN, x \in BOOLEAN, y \in BOOLEAN, z \in BOOLEAN :
       SendFinish(u, h, x, y, z)
  \/ \E t \in promotionTimers : PromoteFire(t)
  \/ \E b \in broadcasts : BroadcastDeliver(b)

SpecThread == InitOpen /\ [][NextThread]_vars

\* Typing, from both views open: the open conversation, keystrokes, the idle
\* timer, the end of the session.
NextTyping ==
  \/ \E u \in Clients, v \in Users : Select(u, v)
  \/ \E u \in Clients : Keystroke(u)
  \/ \E u \in Clients : \E t \in pageIdleTimers[u] : PageIdleFire(u, t)
  \/ \E u \in Clients : Unmount(u)
  \/ \E u \in Clients : CleanupFinish(u)

SpecTyping == InitOpen /\ [][NextTyping]_vars

\* A timer that is pending fires: the idle timer of the view is a setTimeout
\* that nothing clears but the next keystroke of the same view.
IdleTimerFires == \E u \in Clients : \E t \in pageIdleTimers[u] : PageIdleFire(u, t)

SpecTypingFair == SpecTyping /\ WF_vars(IdleTimerFires)

\* ------------------------------------------- the pair-room specification
\* Two pairs of identifiers are drawn; DeriveRooms derives the room of each
\* pair, and of the first pair in the other order.
InitRoom ==
  /\ messages = <<>>
  /\ user_status = {}
  /\ typing_indicators = {}
  /\ profiles = Users
  /\ rlsMessagesUpdate = FALSE
  /\ InitClients
  /\ roomArgs \in IdStrings \X IdStrings \X IdStrings \X IdStrings
  /\ roomOut = <<>>
  /\ callArgs = <<>>
  /\ callOut = <<>>
  /\ NoEvents
  /\ MessagesPageClosed

DeriveRooms ==
  /\ roomOut = <<>>
  /\ roomOut' = <<buildPairRoom(roomArgs[1], roomArgs[2]),
                  buildPairRoom(roomArgs[2], roomArgs[1]),
                  buildPairRoom(roomArgs[3], roomArgs[4])>>
  /\ UNCHANGED <<dbVars, chanVars, timerVars, svcVars, pageVars, roomArgs, callVars, evVars, mpVars>>

NextRoom == DeriveRooms

SpecRoom == InitRoom /\ [][NextRoom]_vars

\* ------------------------------------------- one call on a drawn database
\* The tables of n message rows: sender and receiver from pairs, status from
\* statuses, ids in insertion order, creation times in any order.
MessageTables(pairs, statuses, n) ==
  {[i \in 1..n |-> [id |-> i, sender_id |-> sr[i][1], receiver_id |-> sr[i][2],
                    created_at |-> at[i], status |-> st[i]]] :
     sr \in [1..n -> pairs], at \in Permutations(1..n), st \in [1..n -> statuses]}

\* Everything but the database and the call is at rest.
InitCall ==
  /\ user_status = {}
  /\ typing_indicators = {}
  /\ profiles = Users
  /\ InitClients
  /\ roomArgs = <<>>
  /\ roomOut = <<>>
  /\ callOut = <<>>
  /\ NoEvents
  /\ MessagesPageClosed

FetchPairs == {<<ua, ub>>, <<ub, ua>>, <<ua, uc>>, <<uc, ub>>}
FetchLimits == {0, 1, 2, DefaultLimit}
FetchOffsets == {0, 1, 2}

\* getMessages(userId1, userId2, limit, offset) on a drawn table.
InitFetch ==
  /\ InitCall
  /\ rlsMessagesUpdate = FALSE
  /\ messages \in UNION {MessageTables(FetchPairs, {"sent"}, n) : n \in 0..MaxRows}
  /\ callArgs \in {[userId1 |-> a, userId2 |-> b, limit |-> l, offset |-> o] :
                    a \in {ua, ub}, b \in {ua, ub, uc}, l \in FetchLimits, o \in FetchOffsets}

\* The call, and the call with the two users exchanged.
FetchCall ==
  /\ callOut = <<>>
  /\ callOut' = [rows    |-> getMessages(messages, callArgs.userId1, callArgs.userId2,
                                         callArgs.limit, callArgs.offset),
                 swapped |-> getMessages(messages, callArgs.userId2, callArgs.userId1,
                                         callArgs.limit, callArgs.offset)]
  /\ UNCHANGED <<dbVars, chanVars, timerVars, svcVars, pageVars, roomVars, callArgs, evVars, mpVars>>

NextFetch == FetchCall

SpecFetch == InitFetch /\ [][NextFetch]_vars

MessageStatuses == {"sent", "delivered", "read"}

\* markMessagesAsRead(senderId, receiverId) on a drawn table, under either
\* deployment of the policies.
InitMarkRead ==
  /\ InitCall
  /\ rlsMessagesUpdate \in BOOLEAN
  /\ messages \in UNION {MessageTables(FetchPairs, MessageStatuses, n) : n \in 1..MaxRows}
  /\ callArgs \in {[senderId |-> a, receiverId |-> b] : a \in {ua, ub}, b \in {ua, ub}}

\* The call; the table as it was is kept for comparison.
MarkReadCall ==
  /\ callOut = <<>>
  /\ messages' = markMessagesAsRead(messages, callArgs.senderId, callArgs.receiverId)
  /\ callOut' = [before |-> messages, raised |-> FALSE]
  /\ UNCHANGED <<user_status, typing_indicators, profiles, rlsMessagesUpdate, chanVars,
                 timerVars, svcVars, pageVars, roomVars, callArgs, evVars, mpVars>>

NextMarkRead == MarkReadCall

SpecMarkRead == InitMarkRead /\ [][NextMarkRead]_vars

ConversationPairs == {<<ua, ub>>, <<ub, ua>>, <<ua, uc>>, <<uc, ua>>, <<ub, uc>>}

\* getConversations(userId) on a drawn table.
InitConversations ==
  /\ InitCall
  /\ rlsMessagesUpdate = FALSE
  /\ messages \in UNION {MessageTables(ConversationPairs, {st}, n) :
                          n \in 0..MaxRows, st \in {"sent", "read"}}
  /\ callArgs \in {[userId |-> a] : a \in {ua, ub}}

ConversationsCall ==
  /\ callOut = <<>>
  /\ callOut' = [previews |-> getConversations(messages, user_status, profiles, callArgs.userId)]
  /\ UNCHANGED <<dbVars, chanVars, timerVars, svcVars, pageVars, roomVars, callArgs, evVars, mpVars>>

NextConversations == ConversationsCall

SpecConversations == InitConversations /\ [][NextConversations]_vars

\* The conversation list of ua's view: its load, the events of the three
\* subscriptions that write it, the lookups they start, and ua's own sends.
\* uc may sign up while the view is open.
InitList ==
  /\ messages \in {PriorHistory(n) : n \in {0, 1}}
  /\ user_status = {}
  /\ typing_indicators = {}
  /\ profiles \in {Users \ {uc}, Users}
  /\ rlsMessagesUpdate = FALSE
  /\ InitClients
  /\ roomArgs = <<>>
  /\ roomOut = <<>>
  /\ callArgs = <<>>
  /\ callOut = <<>>
  /\ NoEvents
  /\ MessagesPageClosed

NextList ==
  \/ Mount(ua)
  \/ InitChatStatus(ua)
  \/ InitChatConversations(ua)
  \/ InitChatMerge(ua)
  \/ \E v \in Users : StatusWritten(v)
  \/ \E v \in Users : ProfileWritten(v)
  \/ \E v \in Users \ {ua} : MessageWritten(v, ua)
  \/ \E e \in listEvents : EventDeliver(e)
  \/ \E l \in statusLookups[ua] : LookupFinish(ua, l)
  \/ \E v \in Users : Select(ua, v)
  \/ PageSend(ua, "ok", FALSE)
  \/ \E h \in BOOLEAN : SendFinish(ua, h, FALSE, FALSE, FALSE)

SpecList == InitList /\ [][NextList]_vars

\* ------------------------------------------------ the read paths failing
\* What a query of the backend does: it returns data, returns an error, or
\* throws.
QueryOutcomes == {"ok", "error", "throw"}

\* The body of a try block: it threw, or it returned a value.
Thrown == [thrown |-> TRUE, value |-> <<>>]
Returned(value) == [thrown |-> FALSE, value |-> value]

\* A body run with no catch around it.
Uncaught(body) == [raised |-> body.thrown, value |-> body.value]

\* try { body } catch (e) { console.error(...); return []; }
TryCatch(body) ==
  IF body.thrown THEN [raised |-> FALSE, value |-> <<>>]
  ELSE [raised |-> FALSE, value |-> body.value]

\* searchMessages: the rows of the user whose content matches, latest first,
\* limit of them. matching: the ids of the rows the pattern matches.
searchMessages(table, userId, matching, limit) ==
  LET hit(row) == /\ row.sender_id = userId \/ row.receiver_id = userId
                  /\ row.id \in matching
      data == Reverse(OrderByCreatedAt(SelectSeq(table, hit)))
  IN  SubSeq(data, 1, Min(limit, Len(data)))

\* The five read operations with their queries failing. q1 is the outcome of
\* the main query, q2 that of the profile (and status) lookup that follows
\* it in getMessages, getConversations and getOnlineUsers.
ReadBody(fn, table, status, profs, userId, otherId, matching, q1, q2) ==
  IF q1 = "throw" THEN Thrown
  ELSE IF q1 = "error" THEN Returned(<<>>)
  ELSE CASE fn = "getMessages" ->
              IF q2 = "throw" THEN Thrown
              ELSE Returned(getMessages(table, userId, otherId, DefaultLimit, DefaultOffset))
         [] fn = "getConversations" ->
              IF getConversations(table, status, profs, userId) = <<>> THEN Returned(<<>>)
              ELSE IF q2 = "throw" THEN Thrown
              ELSE IF q2 = "error" THEN Returned(getConversations(table, {}, {}, userId))
              ELSE Returned(getConversations(table, status, profs, userId))
         [] fn = "getAllUsersExcept" ->
              Returned(getAllUsersExcept(profs, userId))
         [] fn = "getOnlineUsers" ->
              IF getOnlineUsers(status, Users, userId) = {} THEN Returned(<<>>)
              ELSE IF q2 = "throw" THEN Thrown
              ELSE IF q2 = "error" THEN Returned(<<>>)
              ELSE Returned(SortedByName(getOnlineUsers(status, profs, userId)))
         [] fn = "searchMessages" ->
              Returned(searchMessages(table, userId, matching, SearchLimit))

TwoQueryReads == {"getMessages", "getConversations", "getOnlineUsers"}
ReadFunctions == TwoQueryReads \cup {"getAllUsersExcept", "searchMessages"}

\* One call of one read operation on a drawn database.
InitReads ==
  /\ InitCall
  /\ rlsMessagesUpdate = FALSE
  /\ messages \in UNION {MessageTables(FetchPairs, {"sent"}, n) : n \in 0..MaxRows}
  /\ callArgs \in {[fn |-> f, online |-> o, matching |-> m, q1 |-> a, q2 |-> b] :
                    f \in ReadFunctions, o \in {{}, {ub}}, m \in {{}, 1..MaxRows},
                    a \in QueryOutcomes, b \in QueryOutcomes}
  /\ callArgs.fn \notin TwoQueryReads => callArgs.q2 = "ok"
  /\ callArgs.fn # "getOnlineUsers" => callArgs.online = {}
  /\ callArgs.fn # "searchMessages" => callArgs.matching = {}

ReadCall ==
  /\ callOut = <<>>
  /\ callOut' = TryCatch(ReadBody(callArgs.fn, messages,
                                  {[user_id |-> v, is_online |-> TRUE] : v \in callArgs.online},
                                  profiles, ua, ub, callArgs.matching,
                                  callArgs.q1, callArgs.q2))
  /\ UNCHANGED <<dbVars, chanVars, timerVars, svcVars, pageVars, roomVars, callArgs, evVars, mpVars>>

NextReads == ReadCall

SpecReads == InitReads /\ [][NextReads]_vars

\* The thread of ua's realtime view and everything that writes it: the
\* history fetch of a selection, the change feed, the pair rooms, and the
\* sender's own append in ub's view; ub writes to ua from its view, uc from a
\* session that is not modelled.
NextFeeds ==
  \/ \E v \in Users : Select(ua, v)
  \/ Select(ub, ua)
  \/ \E u \in Clients : \E l \in loads[u] : LoadFetch(u, l)
  \/ \E u \in Clients : \E l \in loads[u] : LoadMark(u, l)
  \/ PageSend(ub, "ok", FALSE)
  \/ SendFinish(ub, FALSE, FALSE, FALSE, FALSE)
  \/ \E b \in broadcasts : BroadcastDeliver(b)
  \/ \E e \in listEvents : EventDeliver(e)
  \/ MessageWritten(uc, ua)

\* Both views open, no message yet, no UPDATE policy on messages.
InitFeeds == InitOpen /\ messages = <<>> /\ ~rlsMessagesUpdate

SpecFeeds == InitFeeds /\ [][NextFeeds]_vars

\* The pair rooms of ua's service through its sessions, with uc publishing
\* to ua from a session that is not modelled. A view is mounted here only
\* when the teardown of the one before has finished.
NextPairRoom ==
  \/ cleanupPending[ua] = 0 /\ Mount(ua)
  \/ InitChatStatus(ua)
  \/ InitChatConversations(ua)
  \/ InitChatMerge(ua)
  \/ Unmount(ua)
  \/ CleanupFinish(ua)
  \/ \E v \in Users : Select(ua, v)
  \/ PageSend(ua, "ok", FALSE)
  \/ SendFinish(ua, FALSE, FALSE, FALSE, FALSE)
  \/ PeerSendMessage(uc, ua)
  \/ \E b \in broadcasts : BroadcastDeliver(b)

SpecPairRoom == InitFresh /\ [][NextPairRoom]_vars

\* ================================================================= claims
Occurrences(seq, x) == Cardinality({i \in 1..Len(seq) : seq[i] = x})

InCreationOrder(rows) ==
  \A i \in 1..Len(rows) : \A j \in i..Len(rows) : rows[i].created_at <= rows[j].created_at

\* C1: when sendMessage(A, B) has returned its message, getMessages(A, B)
\* returns the inserted row exactly once, and its rows are in creation-time
\* order.
SentMessageFetchedOnce ==
  [][\A u \in Clients :
       (send[u].pc = "inserted" /\ send'[u].pc = "idle" /\ lastSendResult'[u] = "ok") =>
         LET fetched == getMessages(messages', u, send[u].to, DefaultLimit, DefaultOffset)
         IN  /\ Occurrences(Ids(fetched), send[u].id) = 1
             /\ InCreationOrder(fetched)]_vars

\* The receiver w of a broadcast copy has the conversation with the sender
\* open and its pair room subscribed with the callback of the current view.
PairRoomOpenFor(b) ==
  /\ b.to = b.msg.receiver_id
  /\ mounted[b.to]
  /\ selected[b.to] = b.msg.sender_id
  /\ \E c \in realtimeChannels[b.to] :
       /\ c.topic = b.topic
       /\ c.kind = "pair"
       /\ c.peer = b.msg.sender_id
       /\ c.gen = mountCount[b.to]

\* C2: when the broadcast of a stored message from A reaches B, who has the
\* conversation open and the pair room subscribed, B's thread gets the message
\* by that delivery, and getMessages(A, B) holds exactly one row for it.
BroadcastReceivedAndStoredOnce ==
  [][\A b \in broadcasts :
       (b \notin broadcasts' /\ b.msg.id > 0 /\ PairRoomOpenFor(b)) =>
         /\ thread'[b.to] = Append(thread[b.to], b.msg.id)
         /\ Occurrences(Ids(getMessages(messages', b.msg.sender_id, b.msg.receiver_id,
                                        DefaultLimit, DefaultOffset)),
                        b.msg.id) = 1]_vars

StatusRank(status) ==
  CASE status = "sent" -> 0
    [] status = "delivered" -> 1
    [] status = "read" -> 2

StatusLifecycle ==
  [][\A u \in Clients : \A v \in Clients \ {u} :
       /\ (/\ initPc[u] = "status" /\ initPc'[u] = "conversations"
            /\ mounted[u] /\ cleanupPending[u] = 0) =>
            u \in getOnlineUsers(user_status', profiles', v)
       /\ (/\ cleanupPending'[u] < cleanupPending[u]
            /\ ~mounted[u] /\ initPc[u] = "idle" /\ cleanupPending'[u] = 0) =>
            u \notin getOnlineUsers(user_status', profiles', v)]_vars

\* The stored indicator of the pair (userId, targetUserId): the value of its
\* latest row.
IndicatorReads(table, userId, targetUserId, value) ==
  \E r \in table :
    /\ r.user_id = userId
    /\ r.target_user_id = targetUserId
    /\ r.is_typing = value
    /\ \A q \in table :
         (q.user_id = userId /\ q.target_user_id = targetUserId) => q.n <= r.n

\* C5: after a keystroke of U in the conversation with V, the indicator of
\* (U, V) eventually reads false.
TypingEventuallyFalse ==
  \A u \in Clients : \A v \in Users :
    (typingCall[u] = [target |-> v, isTyping |-> TRUE]) ~> IndicatorReads(typing_indicators, u, v, FALSE)

\* C6: a call sendTypingIndicator(self, peer, isTyping) writes a row with
\* is_typing = isTyping for (self, peer), and with isTyping = true it arms the
\* auto-reset timer of the pair.
TypingCallUpserts ==
  [][\A u \in Clients :
       typingCall'[u] # typingCall[u] =>
         /\ IndicatorReads(typing_indicators', u, typingCall'[u].target,
                           typingCall'[u].isTyping)
         /\ typingCall'[u].isTyping =>
              (u \o StrDash \o typingCall'[u].target) \in typingTimeouts'[u]]_vars

HasHistory(u, v) ==
  \E i \in 1..Len(messages) : BetweenPair(messages[i], u, v)

\* C7: the list that initializeChat sets holds every profile other than the
\* user exactly once; an entry of a user with no message to or from the user
\* has zero unread and no last message.
DirectoryComplete ==
  \A u \in Clients :
    (mounted[u] /\ initPc[u] = "idle") =>
      /\ \A v \in profiles \ {u} :
           Cardinality({i \in 1..Len(conversations[u]) :
                          conversations[u][i].user_id = v}) = 1
      /\ \A i \in 1..Len(conversations[u]) :
           ~HasHistory(u, conversations[u][i].user_id) =>
             /\ conversations[u][i].unread_count = 0
             /\ conversations[u][i].last_message = 0

\* C7: a merged list with a user that has history and a user that has none.
DirectoryMergedWithAndWithoutHistory ==
  /\ mounted[ua]
  /\ initPc[ua] = "idle"
  /\ HasHistory(ua, ub)
  /\ ~HasHistory(ua, uc)
  /\ \E i \in 1..Len(conversations[ua]) :
       conversations[ua][i].user_id = ub /\ conversations[ua][i].last_message # 0
  /\ \E i \in 1..Len(conversations[ua]) :
       conversations[ua][i].user_id = uc /\ conversations[ua][i].last_message = 0

\* C8: buildPairRoom(A, B) = buildPairRoom(B, A), and the rooms of two pairs
\* are equal only when the pairs are the same unordered pair.
PairRoomOrderIndependent ==
  roomOut # <<>> =>
    /\ roomOut[1] = roomOut[2]
    /\ (roomOut[1] = roomOut[3]) <=>
         ({roomArgs[1], roomArgs[2]} = {roomArgs[3], roomArgs[4]})

\* C8: rooms derived for two different pairs that share a user, the first
\* pair of two different identifiers, one a prefix of the other.
PairRoomsDerived ==
  /\ roomOut # <<>>
  /\ roomArgs[1] = ua
  /\ roomArgs[2] = uc
  /\ roomArgs[3] = roomArgs[1]
  /\ roomArgs[4] = ub
  /\ roomOut[1] # roomOut[3]

OneChannelPerName ==
  \A u \in Clients :
    /\ \A c \in realtimeChannels[u] : \A d \in realtimeChannels[u] :
         c.topic = d.topic => c = d
    /\ \A n \in DOMAIN channels[u] :
         \E c \in realtimeChannels[u] : c.id = channels[u][n] /\ c.topic = n
    /\ \A c \in realtimeChannels[u] : c.topic \in DOMAIN channels[u]

HandleKept ==
  \A u \in Clients :
    cleanupPending'[u] >= cleanupPending[u] =>
      /\ \A n \in DOMAIN channels[u] :
           n \in DOMAIN channels'[u] /\ channels'[u][n] = channels[u][n]
      /\ realtimeChannels[u] \subseteq realtimeChannels'[u]

\* C9: every client holds at most one open channel per channel name, the one
\* its registry names; a step that is not the end of a cleanup keeps every
\* registered handle and every open channel, so a request for a registered
\* name returns the open handle.
RegistrationIdempotent == []OneChannelPerName /\ [][HandleKept]_vars

\* C9: the view was mounted again before the cleanup of the first mount
\* ended: its four subscriptions were requested a second time, and the
\* registered channels are still those of the first mount.
SubscriptionRequestedAgain ==
  /\ mounted[ua]
  /\ mountCount[ua] = 2
  /\ cleanupPending[ua] > 0
  /\ Cardinality(realtimeChannels[ua]) >= 4
  /\ \A c \in realtimeChannels[ua] : c.kind \in {"messages", "profiles", "typing", "status"} => c.gen = 1

\* C10: when cleanup(U) completes, the registry of U is empty, no channel of
\* U is open and no timer of U is pending: no typing timeout, no idle timer
\* of the view, no delayed promotion.
CleanupClosesEverything ==
  [][\A u \in Clients :
       (cleanupPending'[u] < cleanupPending[u]) =>
         /\ DOMAIN channels'[u] = {}
         /\ realtimeChannels'[u] = {}
         /\ typingTimeouts'[u] = {}
         /\ pageIdleTimers'[u] = {}
         /\ \A t \in promotionTimers' : t.owner # u]_vars

\* C11: a call of sendMessage whose insert fails (an error result or a thrown
\* error) writes no row, schedules no promotion and returns null to a caller
\* that had a conversation open; a call inserts at most one row, and a
\* promotion is pending only for a row that was inserted.
FailedSendSurfaced ==
  [][/\ Len(messages') <= Len(messages) + 1
     /\ Len(messages') = Len(messages) + 1 => sendCount' = sendCount + 1
     /\ \A t \in promotionTimers' : t.id \in 1..Len(messages')
     /\ (sendCount' = sendCount + 1 /\ send' = send) =>
          /\ messages' = messages
          /\ promotionTimers' = promotionTimers
          /\ \E u \in Clients :
               /\ mounted[u] /\ selected[u] # NoUser /\ send[u].pc = "idle"
               /\ lastSendResult'[u] = "null"]_vars

\* C11: the one call made so far has failed at its insert: no row was added
\* and the caller holds null.
SendFailedAtInsert ==
  /\ sendCount = 1
  /\ Len(messages) \in InitialHistories
  /\ promotionTimers = {}
  /\ \E u \in Clients : lastSendResult[u] = "null" /\ send[u].pc = "idle"

\* C12: a call of sendMessage that inserts writes a row with status 'sent',
\* and when it returns its message exactly one promotion of that row to
\* 'delivered' has been scheduled by it.
OnePromotionPerSend ==
  [][\A u \in Clients :
       /\ (send[u].pc = "idle" /\ send'[u].pc = "inserted") =>
            messages'[send'[u].id].status = "sent"
       /\ (send[u].pc = "inserted" /\ send'[u].pc = "idle" /\ lastSendResult'[u] = "ok") =>
            Cardinality({t \in promotionTimers' \ promotionTimers : t.id = send[u].id}) = 1]_vars

\* The rows of the table between two users that are created before a row.
EarlierInPair(table, row, a, b) ==
  Cardinality({i \in 1..Len(table) :
                 BetweenPair(table[i], a, b) /\ table[i].created_at < row.created_at})

\* C13: getMessages(A, B, limit, offset) returns rows of the table, each at
\* most once, all between A and B, in ascending creation time; a row between
\* A and B is returned exactly when its position in that order is in
\* offset .. offset+limit-1; the call for (B, A) returns the same; with no
\* message between A and B the result is the empty sequence.
FetchReturnsPage ==
  callOut # <<>> =>
    LET a == callArgs.userId1
        b == callArgs.userId2
        r == callOut.rows
    IN  /\ \A i \in 1..Len(r) :
             /\ \E k \in 1..Len(messages) : messages[k] = r[i]
             /\ BetweenPair(r[i], a, b)
        /\ \A i \in 1..Len(r) : \A j \in 1..Len(r) :
             i < j => r[i].created_at < r[j].created_at
        /\ \A k \in 1..Len(messages) :
             BetweenPair(messages[k], a, b) =>
               ((\E i \in 1..Len(r) : r[i] = messages[k]) <=>
                  (/\ callArgs.offset <= EarlierInPair(messages, messages[k], a, b)
                   /\ EarlierInPair(messages, messages[k], a, b)
                        < callArgs.offset + callArgs.limit))
        /\ callOut.swapped = r
        /\ (\A k \in 1..Len(messages) : ~BetweenPair(messages[k], a, b)) => r = <<>>

\* C13: a call that returned the second page of one row out of a conversation
\* whose rows were inserted out of creation order, next to a row of another
\* pair.
FetchedSecondPage ==
  /\ callOut # <<>>
  /\ callArgs.limit = 1
  /\ callArgs.offset = 1
  /\ Len(callOut.rows) = 1
  /\ Len(messages) = 3
  /\ callOut.rows[1].id = 1
  /\ \E k \in 1..3 : ~BetweenPair(messages[k], callArgs.userId1, callArgs.userId2)
  /\ \E k \in 2..3 : messages[k].created_at < messages[1].created_at

\* C14: after markMessagesAsRead(S, R) every row from S to R that was not
\* read is read and otherwise as it was, every other row is as it was, and
\* nothing was raised to the caller.
MarkReadFrame ==
  callOut # <<>> =>
    /\ Len(messages) = Len(callOut.before)
    /\ \A k \in 1..Len(messages) :
         IF /\ callOut.before[k].sender_id = callArgs.senderId
            /\ callOut.before[k].receiver_id = callArgs.receiverId
            /\ callOut.before[k].status # "read"
         THEN messages[k] = [callOut.before[k] EXCEPT !.status = "read"]
         ELSE messages[k] = callOut.before[k]
    /\ ~callOut.raised

\* The rows of the table exchanged between userId and peer.
ConversationRows(table, userId, peer) ==
  {k \in 1..Len(table) :
     \/ table[k].sender_id = userId /\ table[k].receiver_id = peer
     \/ table[k].sender_id = peer /\ table[k].receiver_id = userId}

\* C15: getConversations(U) has exactly one preview for each peer with a
\* message to or from U and none for anyone else; the preview's last message
\* is the latest of that conversation, and its unread count is the number of
\* the conversation's messages not sent by U, whatever their status.
OnePreviewPerPeer ==
  callOut # <<>> =>
    LET U   == callArgs.userId
        out == callOut.previews
    IN  /\ \A p \in Users \ {U} :
             Cardinality({i \in 1..Len(out) : out[i].user_id = p})
               = IF ConversationRows(messages, U, p) # {} THEN 1 ELSE 0
        /\ \A i \in 1..Len(out) :
             LET rows == ConversationRows(messages, U, out[i].user_id)
             IN  /\ out[i].user_id \in Users \ {U}
                 /\ \E k \in rows :
                      /\ out[i].last_message = messages[k].created_at
                      /\ \A j \in rows : messages[j].created_at <= messages[k].created_at
                 /\ out[i].unread_count
                      = Cardinality({k \in rows : messages[k].sender_id # U})

\* Two conversations; one holds an older and a newer message, and a message
\* already read is counted as unread.
PreviewsOfTwoPeers ==
  /\ callOut # <<>>
  /\ Len(callOut.previews) = 2
  /\ \E i \in 1..Len(callOut.previews) :
       LET rows == ConversationRows(messages, callArgs.userId, callOut.previews[i].user_id)
       IN  /\ Cardinality(rows) = 2
           /\ callOut.previews[i].unread_count = 1
           /\ \A k \in rows : messages[k].status = "read"

\* The list is in the order of the comparator: no entry comes before one that
\* sorts before it.
Ordered(list) ==
  \A i \in 1..Len(list) : \A j \in (i + 1)..Len(list) : ~ConvLess(list[j], list[i])

\* C16: once the initial load is done, the conversation list of an open view
\* is ordered online first, then by the later last message, then by name,
\* after every status, profile and message event.
ListStaysOrdered ==
  \A u \in Clients :
    (mounted[u] /\ initPc[u] = "idle") => Ordered(conversations[u])

\* C20: no user id occurs twice in the conversation list, whatever the
\* interleaving of profile events, status events and their lookups, incoming
\* messages and own sends.
NoUserListedTwice ==
  \A u \in Clients :
    \A i \in 1..Len(conversations[u]) : \A j \in 1..Len(conversations[u]) :
      conversations[u][i].user_id = conversations[u][j].user_id => i = j

\* What the call returns when every query succeeds.
ReadOfAll ==
  ReadBody(callArgs.fn, messages,
           {[user_id |-> v, is_online |-> TRUE] : v \in callArgs.online},
           profiles, ua, ub, callArgs.matching, "ok", "ok").value

\* C17, amended: no read operation raises; each returns the empty list when
\* its main query returns an error or when any of its queries throws; when
\* only the profile lookup returns an error, getMessages and getConversations
\* return the rows of the main query, the previews without name or presence,
\* and getOnlineUsers returns the empty list.
ReadFailuresDegrade ==
  callOut # <<>> =>
    /\ ~callOut.raised
    /\ (callArgs.q1 # "ok" \/ callArgs.q2 = "throw") => callOut.value = <<>>
    /\ (callArgs.q1 = "ok" /\ callArgs.q2 = "error") =>
         CASE callArgs.fn = "getMessages" -> callOut.value = ReadOfAll
           [] callArgs.fn = "getConversations" ->
                /\ Len(callOut.value) = Len(ReadOfAll)
                /\ \A i \in 1..Len(ReadOfAll) :
                     callOut.value[i] = [ReadOfAll[i] EXCEPT !.name = StrUnknownUser,
                                                             !.is_online = FALSE]
           [] OTHER -> callOut.value = <<>>
    /\ (callArgs.q1 = "ok" /\ callArgs.q2 = "ok") => callOut.value = ReadOfAll

\* getMessages returned messages although its profile lookup returned an
\* error.
MessagesReturnedWithoutProfiles ==
  /\ callOut # <<>>
  /\ callArgs.fn = "getMessages"
  /\ callArgs.q1 = "ok"
  /\ callArgs.q2 = "error"
  /\ Len(callOut.value) = 2

\* C17 as stated: no read operation raises, and each returns the empty list
\* whenever one of its queries returns an error or throws.
ReadFailureGivesEmptyList ==
  callOut # <<>> =>
    /\ ~callOut.raised
    /\ (callArgs.q1 # "ok" \/ callArgs.q2 # "ok") => callOut.value = <<>>

\* The rows of the table for the ordered pair.
IndicatorRows(table, userId, targetUserId) ==
  {r \in table : r.user_id = userId /\ r.target_user_id = targetUserId}

\* C18: once sendTypingIndicator has been called for a pair, the table holds
\* one row for that pair, however many calls there were.
OneIndicatorRowPerPair ==
  \A u \in Clients :
    typingCall[u].target # NoUser =>
      Cardinality(IndicatorRows(typing_indicators, u, typingCall[u].target)) = 1

\* C19: every pair room a mounted client holds open is the room of the
\* conversation selected now.
OnlySelectedRoomOpen ==
  \A u \in Clients :
    mounted[u] =>
      \A c \in realtimeChannels[u] :
        c.kind \in {"pair", "none"} =>
          /\ selected[u] # NoUser
          /\ c.topic = buildPairRoom(u, selected[u])

\* C22: an event handed to a live view reaches the callback of the page
\* whether or not the profile lookup of the handler finds a row: a status
\* event has the effect of the status callback (the entry marked or made, or
\* the lookup started), a message event that of the messages callback.
EventReachesCallback ==
  [][\A e \in listEvents :
       (e \notin listEvents' /\ mounted[e.to] /\ e.gen = mountCount[e.to]) =>
         LET u  == e.to
             st == onStatusChange(conversations[u], e.user, e.is_online, {})
         IN  CASE e.kind = "status" ->
                    /\ conversations'[u] = st.list
                    /\ st.lookup => [user |-> e.user, gen |-> e.gen] \in statusLookups'[u]
              [] e.kind = "messages" ->
                    /\ thread'[u] = Append(thread[u], e.id)
                    /\ IndexOfUser(conversations'[u], e.user) > 0
              [] OTHER -> TRUE]_vars

\* C23: a sendMessage call that has inserted its row returns the message, not
\* null, whatever fails after the insert.
InsertedSendReturnsMessage ==
  [][\A u \in Clients :
       (send[u].pc = "inserted" /\ send'[u].pc = "idle") =>
         lastSendResult'[u] = "ok"]_vars

\* C24: every message in flight on a pair room carries the id of a row of the
\* messages table with the same sender and receiver.
BroadcastIsPersisted ==
  \A b \in broadcasts :
    /\ b.msg.id \in 1..Len(messages)
    /\ messages[b.msg.id].sender_id = b.msg.sender_id
    /\ messages[b.msg.id].receiver_id = b.msg.receiver_id

\* C25: no message id occurs twice in the thread a view shows.
NoMessageShownTwice ==
  \A u \in Clients :
    \A i \in 1..Len(thread[u]) : \A j \in 1..Len(thread[u]) :
      thread[u][i] = thread[u][j] => i = j

\* C26: in a view with a conversation selected, once the history fetch of the
\* selection is done, every message in the thread is between the user and the
\* selected peer.
ThreadOfSelectedPair ==
  \A u \in Clients :
    (mounted[u] /\ selected[u] # NoUser /\ loads[u] = {}) =>
      \A i \in 1..Len(thread[u]) :
        /\ thread[u][i] \in 1..Len(messages)
        /\ BetweenPair(messages[thread[u][i]], u, selected[u])

\* The client holds the room open, and no channel it holds on the topic was
\* opened by an earlier view.
RoomHeldByView(u, topic) ==
  /\ \E c \in realtimeChannels[u] : c.topic = topic
  /\ \A c \in realtimeChannels[u] : c.topic = topic => c.gen \in {0, mountCount[u]}

\* C27: once the view of u has subscribed the room of (u, v), every broadcast
\* of the pair received on the room is handed to the callback of the view,
\* which appends it to the thread, also when broadcastPairMessage had opened
\* the room before.
PairCallbackInvoked ==
  [][\A b \in broadcasts :
       (/\ b \notin broadcasts'
        /\ mounted[b.to]
        /\ selected[b.to] = b.msg.sender_id
        /\ b.msg.receiver_id = b.to
        /\ RoomHeldByView(b.to, b.topic)) =>
         thread'[b.to] = Append(thread[b.to], b.msg.id)]_vars

ChangeFeedKinds == {"messages", "profiles", "typing", "status"}

\* C28: a mounted view holds each of its four change feeds open on a channel
\* opened by that view, with its callbacks, whatever an earlier teardown is
\* still doing.
ViewOwnsItsSubscriptions ==
  \A u \in Clients :
    mounted[u] =>
      \A k \in ChangeFeedKinds :
        \E c \in realtimeChannels[u] : c.kind = k /\ c.gen = mountCount[u]

\* C29: once initializeChat has merged the list of a mounted view, the list
\* has no entry for the user of the view.
SelfNeverListed ==
  \A u \in Clients :
    (mounted[u] /\ initPc[u] = "idle") =>
      \A i \in 1..Len(conversations[u]) : conversations[u][i].user_id # u

\* The send s is in flight and sendMessage settles in this step.
Settles(s) ==
  /\ s \in tempSends
  /\ \A t \in tempSends \ {s} : t.temp # s.temp
  /\ \A t \in tempSends' : t.call # s.call

\* C21: when the sendMessage of an optimistic send settles, the thread holds
\* no entry with the temporary id, and either the saved message exactly once
\* (success) or the thread rolled back with an alert shown (failure).
OptimisticSendSettled ==
  [][\A s \in tempSends :
       Settles(s) =>
         /\ Occurrences(pageMessages', s.temp) = 0
         /\ IF s.saved # 0
            THEN Occurrences(pageMessages', SavedEntry(s.saved)) = 1
            ELSE alerts' = alerts + 1]_vars

\* No effect of the Messages page is due, no fetch is in flight, and the
\* unread badge of the selected conversation is cleared.
Quiescent ==
  /\ ~effectsDue
  /\ messageFetches = {}
  /\ conversationFetches = {}
  /\ \A c \in pageConversations : c.user_id = selectedUserId => c.unread_count = 0

\* C30: once a conversation is selected in the Messages page and nothing else
\* happens, the page comes to rest: no effect due, no fetch in flight, the
\* unread count of the selected conversation 0.
SelectionQuiesces == (selectedUserId # NoUser) ~> Quiescent

====
